---- MODULE Spec2Model ----
(***************************************************************************)
(* Model of the TechStats cache service (cache-service/app).               *)
(*                                                                         *)
(*   CacheItem, MemoryBackend, RedisBackend, MongoBackend and the          *)
(*   CacheManager facade of cache_manager.py; ClusterManager of            *)
(*   cluster_manager.py and the handlers of routers/cache.py and           *)
(*   routers/cluster.py that use it; CleanupScheduler of                   *)
(*   cleanup_scheduler.py and the asyncio tasks of the two loops.          *)
(*                                                                         *)
(* With them the RateLimiter of api-gateway/app/rate_limiting.py and the   *)
(* SessionStore of websocket-service/app/session_store.py, each over the   *)
(* Redis server of its own service.                                        *)
(*                                                                         *)
(* Sizes are abstract units (one unit stands for a block of pickled        *)
(* bytes), times are abstract ticks of time.time() / datetime.utcnow().    *)
(* A ttl or a timestamp of 0 stands for Python's None (the code tests      *)
(* both with `if ttl:` / `ttl or default`, so 0 and None behave alike).    *)
(***************************************************************************)
EXTENDS Integers, Sequences, FiniteSets, TLC

VARIABLES
    now,            \* the clock read by time.time() and datetime.utcnow()
    cache_strategy, \* settings.cache_strategy
    cache_backend,  \* settings.cache_backend
    backend,        \* CacheManager.backend: "none" until initialize()
    initialized,    \* <backend>.initialized
    cache,          \* MemoryBackend.cache: an insertion-ordered dict of CacheItem
    current_size,   \* MemoryBackend.current_size
    redis_keys,     \* the key space of the Redis server behind RedisBackend.client
    redis_tags,     \* the "<key>:tags" sets of the Redis server
    collection,     \* MongoBackend.collection
    metrics,        \* CacheManager.metrics
    enable_clustering,    \* settings.enable_clustering
    nodes,                \* ClusterManager.nodes: an insertion-ordered dict of ClusterNode
    consistent_hash_ring, \* ClusterManager.consistent_hash_ring: hash -> node id
    running,              \* ClusterManager.running
    remote,               \* what the replicate endpoint of each peer has stored
    health_check_task,    \* ClusterManager.health_check_task and the shutdown() awaiting it
    scheduler,            \* the CleanupScheduler: running, task, stats and the stop() awaiting it
    callers,              \* the coroutines calling into the MemoryBackend
    rate_limiter,         \* the RateLimiter, the counter of its key and the requests it checks
    session_store,        \* the SessionStore, its session key and the get_session under way
    last            \* what the last operation was given and what it returned

vars == <<now, cache_strategy, cache_backend, backend, initialized, cache,
          current_size, redis_keys, redis_tags, collection, metrics,
          enable_clustering, nodes, consistent_hash_ring, running, remote,
          health_check_task, scheduler, callers, rate_limiter, session_store,
          last>>

----------------------------------------------------------------------------
(* Bounds of the model and the scaled settings of config.py.               *)

MaxTime == 2            \* the clock stops ticking here
MaxAccess == 1          \* reads of one item stop once access_count is here
MaxOps == 2             \* facade operations of one kind counted in metrics

max_size == 3           \* settings.max_cache_size_mb * 1024 * 1024
max_item_size == 2      \* settings.max_item_size_kb * 1024
default_ttl_seconds == 2

Keys == {"tech:python", "temp:job"}
Tags == {"lang", "python"}
TagLists == {{}, {"lang"}, {"lang", "python"}}
None == "None"
\* JSON payloads; a JSON null is read as Python's None and can be stored too.
Payloads == {"a", "bb", "xxxx"}
Values == Payloads \cup {None}
Strategies == {"lru", "lfu", "fifo", "random"}
Backends == {"memory", "redis", "mongo"}
Patterns == {"*", "temp:*"}

\* len(pickle.dumps(item.value)) in the units of max_size.
get_item_size(value) ==
    CASE value = None -> 1
      [] value = "a" -> 1
      [] value = "bb" -> 2
      [] value = "xxxx" -> 4

\* fnmatch.fnmatch(key, pattern) on the patterns of the model.
fnmatch(key, pattern) ==
    \/ pattern = "*"
    \/ pattern = "temp:*" /\ key \in {"temp:job"}
    \/ pattern = "lock:*" /\ key \in {"lock:x"}

----------------------------------------------------------------------------
(* CacheItem                                                               *)

\* CacheItem.__init__: ttl falls back to the default, the three access fields
\* start at the creation time and at 0, tags fall back to the empty list.
CacheItem(key, value, ttl, tags, t) ==
    [key |-> key,
     value |-> value,
     ttl |-> IF ttl = 0 THEN default_ttl_seconds ELSE ttl,
     created_at |-> t,
     accessed_at |-> t,
     access_count |-> 0,
     tags |-> tags]

\* CacheItem.is_expired at time t.
\* is_expired with >= in place of >: expired at the instant created_at + ttl.
is_expired_at_boundary(item, t) == t - item.created_at >= item.ttl

is_expired(item, t) == t - item.created_at > item.ttl

----------------------------------------------------------------------------
(* Python dict and list helpers.  A dict is a sequence of items in          *)
(* insertion order: assigning to a key it holds keeps the key's place.     *)

RECURSIVE IndexOf(_, _)
IndexOf(d, key) ==
    IF d = <<>> THEN 0
    ELSE IF Head(d).key = key THEN 1
    ELSE LET r == IndexOf(Tail(d), key) IN IF r = 0 THEN 0 ELSE r + 1

Has(d, key) == IndexOf(d, key) # 0
Lookup(d, key) == d[IndexOf(d, key)]
DictKeys(d) == {d[i].key : i \in DOMAIN d}

\* del d[key]
DictDel(d, key) ==
    LET i == IndexOf(d, key)
    IN  IF i = 0 THEN d ELSE SubSeq(d, 1, i - 1) \o SubSeq(d, i + 1, Len(d))

\* d[key] = item
DictPut(d, key, item) ==
    LET i == IndexOf(d, key)
    IN  IF i = 0 THEN Append(d, item) ELSE [d EXCEPT ![i] = item]

\* One step of a stable insertion sort on the field f.
RECURSIVE InsertSorted(_, _, _)
InsertSorted(s, x, f) ==
    IF s = <<>> THEN <<x>>
    ELSE IF x[f] < Head(s)[f] THEN <<x>> \o s
    ELSE <<Head(s)>> \o InsertSorted(Tail(s), x, f)

\* sorted(d.items(), key=lambda x: x[1].<f>): stable, ascending.
RECURSIVE SortedBy(_, _)
SortedBy(s, f) ==
    IF s = <<>> THEN <<>>
    ELSE InsertSorted(SortedBy(SubSeq(s, 1, Len(s) - 1), f), s[Len(s)], f)

\* The orders random.shuffle can leave a list of n elements in.
Shuffles(n) ==
    {p \in [1..n -> 1..n] : \A i, j \in 1..n : i # j => p[i] # p[j]}

SumSizes(d) ==
    LET RECURSIVE S(_)
        S(s) == IF s = <<>> THEN 0 ELSE get_item_size(Head(s).value) + S(Tail(s))
    IN  S(d)

----------------------------------------------------------------------------
(* MemoryBackend.  M holds the fields of the backend object (cache,        *)
(* current_size, initialized).  Every method gives the object it leaves,   *)
(* W, and the value it returns, ret.                                       *)

\* The while loop with max_size itself as its target.
RECURSIVE evict_loop_to_max_size(_, _)
evict_loop_to_max_size(M, items) ==
    IF M.current_size > max_size /\ items # <<>>
    THEN evict_loop_to_max_size(
             [M EXCEPT !.cache = DictDel(M.cache, Head(items).key),
                       !.current_size = @ - get_item_size(Head(items).value)],
             Tail(items))
    ELSE M

\* The while loop of _evict_if_needed: pop the head of items and delete it
\* from the cache until current_size <= max_size * 0.8 or items is empty.
RECURSIVE evict_loop(_, _)
evict_loop(M, items) ==
    IF 10 * M.current_size > 8 * max_size /\ items # <<>>
    THEN evict_loop([M EXCEPT !.cache = DictDel(M.cache, Head(items).key),
                              !.current_size = @ - get_item_size(Head(items).value)],
                    Tail(items))
    ELSE M

\* The candidate order with the sorts descending.
evict_order_descending(M, shuffle) ==
    CASE cache_strategy = "lru" ->
            [i \in DOMAIN M.cache |->
                SortedBy(M.cache, "accessed_at")[Len(M.cache) + 1 - i]]
      [] cache_strategy = "lfu" ->
            [i \in DOMAIN M.cache |->
                SortedBy(M.cache, "access_count")[Len(M.cache) + 1 - i]]
      [] cache_strategy = "fifo" ->
            [i \in DOMAIN M.cache |->
                SortedBy(M.cache, "created_at")[Len(M.cache) + 1 - i]]
      [] OTHER -> [i \in DOMAIN M.cache |-> M.cache[shuffle[i]]]

\* The candidate order of _evict_if_needed; shuffle is the order random.shuffle
\* leaves the list in.
evict_order(M, shuffle) ==
    CASE cache_strategy = "lru" -> SortedBy(M.cache, "accessed_at")
      [] cache_strategy = "lfu" -> SortedBy(M.cache, "access_count")
      [] cache_strategy = "fifo" -> SortedBy(M.cache, "created_at")
      [] OTHER -> [i \in DOMAIN M.cache |-> M.cache[shuffle[i]]]

\* _evict_if_needed without its loop.
evict_nothing(M, shuffle) == M

evict_if_needed(M, shuffle) ==
    IF M.current_size <= max_size THEN M
    ELSE evict_loop(M, evict_order(M, shuffle))

MemoryBackend_get(M, key) ==
    IF ~M.initialized THEN [W |-> M, ret |-> None]
    ELSE IF Has(M.cache, key)
    THEN LET item == Lookup(M.cache, key)
         IN  IF is_expired(item, now)
             THEN [W |-> [M EXCEPT !.cache = DictDel(M.cache, key),
                                   !.current_size = @ - get_item_size(item.value)],
                   ret |-> None]
             ELSE [W |-> [M EXCEPT !.cache =
                              DictPut(M.cache, key,
                                      [item EXCEPT !.accessed_at = now,
                                                   !.access_count = @ + 1])],
                   ret |-> item.value]
    ELSE [W |-> M, ret |-> None]

\* set with the size test after the item has been put in the cache.
set_checking_size_late(M, key, value, ttl, tags, shuffle) ==
    IF ~M.initialized THEN [W |-> M, ret |-> FALSE]
    ELSE LET item == CacheItem(key, value, ttl, tags, now)
             item_size == get_item_size(item.value)
             old_size == IF Has(M.cache, key)
                         THEN get_item_size(Lookup(M.cache, key).value) ELSE 0
             M1 == [M EXCEPT !.cache = DictPut(M.cache, key, item),
                             !.current_size = @ - old_size + item_size]
         IN  IF item_size > max_item_size
             THEN [W |-> evict_if_needed(M1, shuffle), ret |-> FALSE]
             ELSE [W |-> evict_if_needed(M1, shuffle), ret |-> TRUE]

MemoryBackend_set(M, key, value, ttl, tags, shuffle) ==
    IF ~M.initialized THEN [W |-> M, ret |-> FALSE]
    ELSE LET item == CacheItem(key, value, ttl, tags, now)
             item_size == get_item_size(item.value)
             old_size == IF Has(M.cache, key)
                         THEN get_item_size(Lookup(M.cache, key).value) ELSE 0
             M1 == [M EXCEPT !.cache = DictPut(M.cache, key, item),
                             !.current_size = @ - old_size + item_size]
         IN  IF item_size > max_item_size
             THEN [W |-> M, ret |-> FALSE]
             ELSE [W |-> evict_if_needed(M1, shuffle), ret |-> TRUE]

\* delete answering True for a key that is not stored.
delete_reporting_success(M, key) ==
    [W |-> [M EXCEPT !.cache = DictDel(M.cache, key),
                     !.current_size = SumSizes(DictDel(M.cache, key))],
     ret |-> TRUE]

MemoryBackend_delete(M, key) ==
    IF ~M.initialized THEN [W |-> M, ret |-> FALSE]
    ELSE IF Has(M.cache, key)
    THEN [W |-> [M EXCEPT !.cache = DictDel(M.cache, key),
                          !.current_size =
                              @ - get_item_size(Lookup(M.cache, key).value)],
          ret |-> TRUE]
    ELSE [W |-> M, ret |-> FALSE]

\* exists without the is_expired test.
exists_ignoring_ttl(M, key) ==
    [W |-> M, ret |-> M.initialized /\ Has(M.cache, key)]

MemoryBackend_exists(M, key) ==
    IF ~M.initialized THEN [W |-> M, ret |-> FALSE]
    ELSE IF Has(M.cache, key)
    THEN IF ~is_expired(Lookup(M.cache, key), now)
         THEN [W |-> M, ret |-> TRUE]
         ELSE [W |-> MemoryBackend_delete(M, key).W, ret |-> FALSE]
    ELSE [W |-> M, ret |-> FALSE]

\* mget: one get per requested key, in order; the result is a dict.
RECURSIVE MemoryBackend_mget(_, _)
MemoryBackend_mget(M, keys) ==
    IF keys = <<>> THEN [W |-> M, ret |-> <<>>]
    ELSE LET n == Len(keys)
             r == MemoryBackend_mget(M, SubSeq(keys, 1, n - 1))
             g == MemoryBackend_get(r.W, keys[n])
         IN  [W |-> g.W,
              ret |-> [k \in DOMAIN r.ret \cup {keys[n]} |->
                          IF k = keys[n] THEN g.ret ELSE r.ret[k]]]

\* mset: one set per entry of items (a dict, here the sequence of its
\* [key, value] entries), in order; tags maps some keys to their tags and
\* shuffles[i] is the shuffle the eviction pass of the i-th set draws.
RECURSIVE MemoryBackend_mset(_, _, _, _, _)
MemoryBackend_mset(M, items, ttl, tags, shuffles) ==
    IF items = <<>> THEN [W |-> M, ret |-> TRUE]
    ELSE LET n == Len(items)
             r == MemoryBackend_mset(M, SubSeq(items, 1, n - 1), ttl, tags,
                                     SubSeq(shuffles, 1, n - 1))
             key == items[n].key
             item_tags == IF key \in DOMAIN tags THEN tags[key] ELSE {}
             s == MemoryBackend_set(r.W, key, items[n].value, ttl, item_tags,
                                    shuffles[n])
         IN  [W |-> s.W, ret |-> r.ret /\ s.ret]

\* The purge dropping an expired item from the cache with current_size left
\* as it is.
RECURSIVE purge_expired_keeping_size(_, _)
purge_expired_keeping_size(M, keys) ==
    IF keys = <<>> THEN [W |-> M, ret |-> 0]
    ELSE LET key == Head(keys)
             dead == Has(M.cache, key) /\ is_expired(Lookup(M.cache, key), now)
             M1 == IF dead THEN [M EXCEPT !.cache = DictDel(M.cache, key)] ELSE M
             r == purge_expired_keeping_size(M1, Tail(keys))
         IN  [W |-> r.W, ret |-> r.ret + (IF dead THEN 1 ELSE 0)]

\* get_stats: the expired items are deleted and counted.
RECURSIVE purge_expired(_, _)
purge_expired(M, keys) ==
    IF keys = <<>> THEN [W |-> M, ret |-> 0]
    ELSE LET key == Head(keys)
             dead == Has(M.cache, key) /\ is_expired(Lookup(M.cache, key), now)
             M1 == IF dead THEN MemoryBackend_delete(M, key).W ELSE M
             r == purge_expired(M1, Tail(keys))
         IN  [W |-> r.W, ret |-> r.ret + (IF dead THEN 1 ELSE 0)]

MemoryBackend_get_stats(M) ==
    IF ~M.initialized
    THEN [W |-> M, ret |-> [error |-> "Memory backend not initialized"]]
    ELSE LET r == purge_expired(M, [i \in DOMAIN M.cache |-> M.cache[i].key])
         IN  [W |-> r.W,
              ret |-> [type |-> "memory", total_items |-> Len(r.W.cache),
                       current_size |-> r.W.current_size,
                       expired_cleared |-> r.ret,
                       cache_strategy |-> cache_strategy]]

\* The loop of keys(): exists() on every key of the snapshot, then fnmatch.
RECURSIVE keys_loop(_, _, _)
keys_loop(M, current_keys, pattern) ==
    IF current_keys = <<>> THEN [W |-> M, ret |-> <<>>]
    ELSE LET e == MemoryBackend_exists(M, Head(current_keys))
             r == keys_loop(e.W, Tail(current_keys), pattern)
         IN  [W |-> r.W,
              ret |-> IF e.ret /\ fnmatch(Head(current_keys), pattern)
                      THEN <<Head(current_keys)>> \o r.ret ELSE r.ret]

MemoryBackend_keys(M, pattern) ==
    IF ~M.initialized THEN [W |-> M, ret |-> <<>>]
    ELSE keys_loop(M, [i \in DOMAIN M.cache |-> M.cache[i].key], pattern)

RECURSIVE clear_loop(_, _)
clear_loop(M, keys_to_delete) ==
    IF keys_to_delete = <<>> THEN M
    ELSE clear_loop(MemoryBackend_delete(M, Head(keys_to_delete)).W,
                    Tail(keys_to_delete))

MemoryBackend_clear(M, pattern) ==
    IF ~M.initialized THEN [W |-> M, ret |-> 0]
    ELSE LET k == MemoryBackend_keys(M, pattern)
         IN  [W |-> clear_loop(k.W, k.ret), ret |-> Len(k.ret)]

----------------------------------------------------------------------------
(* RedisBackend.  The Redis server is a set of string keys and a set of    *)
(* "<key>:tags" sets, each with the time its TTL ends (0: no TTL).  fail   *)
(* is the number of the client call of the method that raises (0: none).   *)

\* A key of the server is gone once its TTL has ended.
RedisLive(e) == e.when = 0 \/ now <= e.when
RedisHas(entries, key) == \E e \in entries : e.key = key /\ RedisLive(e)
RedisEntry(entries, key) == CHOOSE e \in entries : e.key = key /\ RedisLive(e)
RedisDel(entries, key) == {e \in entries : e.key # key}

\* _serialize_value / _deserialize_value: msgpack, which packs every JSON value.
serialize_value(value) == <<"msgpack", value>>
deserialize_value(data) == data[2]

RedisBackend_get(W, key, fail) ==
    IF ~W.initialized \/ fail = 1 THEN [W |-> W, ret |-> None]
    ELSE IF RedisHas(W.redis_keys, key)
    THEN [W |-> W, ret |-> deserialize_value(RedisEntry(W.redis_keys, key).data)]
    ELSE [W |-> W, ret |-> None]

\* SADD tag_key *tags: adds to the set the key holds, or starts one with no TTL.
redis_sadd(entries, key, tags) ==
    IF RedisHas(entries, key)
    THEN LET e == RedisEntry(entries, key)
         IN  RedisDel(entries, key) \cup {[e EXCEPT !.members = @ \cup tags]}
    ELSE RedisDel(entries, key) \cup {[key |-> key, members |-> tags, when |-> 0]}

\* EXPIRE tag_key ttl
redis_expire(entries, key, ttl) ==
    IF RedisHas(entries, key)
    THEN LET e == RedisEntry(entries, key)
         IN  RedisDel(entries, key) \cup {[e EXCEPT !.when = now + ttl]}
    ELSE entries

RedisBackend_set(W, key, value, ttl, tags, fail) ==
    IF ~W.initialized \/ fail = 1 THEN [W |-> W, ret |-> FALSE]
    ELSE LET stored == [key |-> key, data |-> serialize_value(value),
                        when |-> IF ttl # 0 THEN now + ttl ELSE 0]
             W1 == [W EXCEPT !.redis_keys = RedisDel(@, key) \cup {stored}]
             W2 == [W1 EXCEPT !.redis_tags = redis_sadd(@, key, tags)]
             W3 == [W2 EXCEPT !.redis_tags = redis_expire(@, key, ttl)]
         IN  IF tags = {} THEN [W |-> W1, ret |-> TRUE]
             ELSE IF fail = 2 THEN [W |-> W1, ret |-> FALSE]
             ELSE IF ttl = 0 THEN [W |-> W2, ret |-> TRUE]
             ELSE IF fail = 3 THEN [W |-> W2, ret |-> FALSE]
             ELSE [W |-> W3, ret |-> TRUE]

RedisBackend_delete(W, key, fail) ==
    IF ~W.initialized \/ fail = 1 THEN [W |-> W, ret |-> FALSE]
    ELSE LET W1 == [W EXCEPT !.redis_keys = RedisDel(@, key)]
         IN  IF fail = 2 THEN [W |-> W1, ret |-> FALSE]
             ELSE [W |-> [W1 EXCEPT !.redis_tags = RedisDel(@, key)],
                   ret |-> RedisHas(W.redis_keys, key)]

RedisBackend_exists(W, key, fail) ==
    IF ~W.initialized \/ fail = 1 THEN [W |-> W, ret |-> FALSE]
    ELSE [W |-> W, ret |-> RedisHas(W.redis_keys, key)]

\* mget: one MGET, then zip(keys, values) into a dict.
RedisBackend_mget(W, keys, fail) ==
    LET requested == {keys[i] : i \in DOMAIN keys}
    IN  IF ~W.initialized \/ fail = 1
        THEN [W |-> W, ret |-> [k \in requested |-> None]]
        ELSE [W |-> W,
              ret |-> [k \in requested |->
                          IF RedisHas(W.redis_keys, k)
                          THEN deserialize_value(RedisEntry(W.redis_keys, k).data)
                          ELSE None]]

----------------------------------------------------------------------------
(* MongoBackend.  The collection is a set of documents, one per key (the   *)
(* unique index on "key"); expires_at 0 is None.                           *)

MongoHas(docs, key) == \E d \in docs : d.key = key
find_one(docs, key) == CHOOSE d \in docs : d.key = key
delete_one(docs, key) == {d \in docs : d.key # key}
doc_expired(doc) == doc.expires_at # 0 /\ doc.expires_at < now

MongoBackend_get(W, key, fail) ==
    IF ~W.initialized \/ fail = 1 THEN [W |-> W, ret |-> None]
    ELSE IF ~MongoHas(W.collection, key) THEN [W |-> W, ret |-> None]
    ELSE LET doc == find_one(W.collection, key)
         IN  IF fail = 2 THEN [W |-> W, ret |-> None]
             ELSE IF doc_expired(doc)
             THEN [W |-> [W EXCEPT !.collection = delete_one(@, key)], ret |-> None]
             ELSE [W |-> [W EXCEPT !.collection = delete_one(@, key) \cup
                              {[doc EXCEPT !.accessed_at = now,
                                           !.access_count = @ + 1]}],
                   ret |-> doc.value]

MongoBackend_set(W, key, value, ttl, tags, fail) ==
    IF ~W.initialized \/ fail = 1 THEN [W |-> W, ret |-> FALSE]
    ELSE LET doc == [key |-> key, value |-> value, tags |-> tags,
                     created_at |-> now, accessed_at |-> now, access_count |-> 0,
                     expires_at |-> IF ttl # 0 THEN now + ttl ELSE 0]
         IN  [W |-> [W EXCEPT !.collection = delete_one(@, key) \cup {doc}],
              ret |-> TRUE]

MongoBackend_delete(W, key, fail) ==
    IF ~W.initialized \/ fail = 1 THEN [W |-> W, ret |-> FALSE]
    ELSE [W |-> [W EXCEPT !.collection = delete_one(@, key)],
          ret |-> MongoHas(W.collection, key)]

MongoBackend_exists(W, key, fail) ==
    IF ~W.initialized \/ fail = 1 THEN [W |-> W, ret |-> FALSE]
    ELSE IF ~MongoHas(W.collection, key) THEN [W |-> W, ret |-> FALSE]
    ELSE IF doc_expired(find_one(W.collection, key))
    THEN IF fail = 2 THEN [W |-> W, ret |-> FALSE]
         ELSE [W |-> [W EXCEPT !.collection = delete_one(@, key)], ret |-> FALSE]
    ELSE [W |-> W, ret |-> TRUE]

\* The loop of mget over the requested keys; docs is the snapshot find() gave.
RECURSIVE mongo_mget_loop(_, _, _)
mongo_mget_loop(W, docs, keys) ==
    IF keys = <<>> THEN [W |-> W, ret |-> <<>>]
    ELSE LET n == Len(keys)
             key == keys[n]
             r == mongo_mget_loop(W, docs, SubSeq(keys, 1, n - 1))
             doc == find_one(docs, key)
             dead == MongoHas(docs, key) /\ doc_expired(doc)
             live == MongoHas(docs, key) /\ ~doc_expired(doc)
             stored == IF MongoHas(r.W.collection, key)
                       THEN {find_one(r.W.collection, key)} ELSE {}
             W1 == IF dead THEN [r.W EXCEPT !.collection = delete_one(@, key)]
                   ELSE IF live
                   THEN [r.W EXCEPT !.collection = delete_one(@, key) \cup
                            {[d EXCEPT !.accessed_at = now, !.access_count = @ + 1] :
                                d \in stored}]
                   ELSE r.W
         IN  [W |-> W1,
              ret |-> [k \in DOMAIN r.ret \cup {key} |->
                          IF k = key THEN (IF live THEN doc.value ELSE None)
                          ELSE r.ret[k]]]

MongoBackend_mget(W, keys, fail) ==
    LET requested == {keys[i] : i \in DOMAIN keys}
    IN  IF ~W.initialized \/ fail = 1
        THEN [W |-> W, ret |-> [k \in requested |-> None]]
        ELSE mongo_mget_loop(W, W.collection, keys)

----------------------------------------------------------------------------
(* The backend object a CacheManager holds, and the facade methods that    *)
(* touch no metric.                                                        *)

\* The fields of the three backend objects and of the servers behind them.
World ==
    [cache |-> cache, current_size |-> current_size, initialized |-> initialized,
     redis_keys |-> redis_keys, redis_tags |-> redis_tags, collection |-> collection]

\* self.backend.<method>(...) by the class of self.backend.
Backend_get(W, key, fail) ==
    CASE backend = "memory" -> MemoryBackend_get(W, key)
      [] backend = "redis" -> RedisBackend_get(W, key, fail)
      [] backend = "mongo" -> MongoBackend_get(W, key, fail)

Backend_set(W, key, value, ttl, tags, shuffle, fail) ==
    CASE backend = "memory" -> MemoryBackend_set(W, key, value, ttl, tags, shuffle)
      [] backend = "redis" -> RedisBackend_set(W, key, value, ttl, tags, fail)
      [] backend = "mongo" -> MongoBackend_set(W, key, value, ttl, tags, fail)

Backend_delete(W, key, fail) ==
    CASE backend = "memory" -> MemoryBackend_delete(W, key)
      [] backend = "redis" -> RedisBackend_delete(W, key, fail)
      [] backend = "mongo" -> MongoBackend_delete(W, key, fail)

Backend_exists(W, key, fail) ==
    CASE backend = "memory" -> MemoryBackend_exists(W, key)
      [] backend = "redis" -> RedisBackend_exists(W, key, fail)
      [] backend = "mongo" -> MongoBackend_exists(W, key, fail)

Backend_mget(W, keys, fail) ==
    CASE backend = "memory" -> MemoryBackend_mget(W, keys)
      [] backend = "redis" -> RedisBackend_mget(W, keys, fail)
      [] backend = "mongo" -> MongoBackend_mget(W, keys, fail)

\* CacheManager.mget with an except branch that answers {}.
mget_empty_on_error(W, keys, fail) ==
    IF backend = "none" THEN [W |-> W, ret |-> <<>>]
    ELSE Backend_mget(W, keys, fail)

\* CacheManager.mget: with no backend yet, self.backend.mget raises and the
\* except branch answers.
CacheManager_mget(W, keys, fail) ==
    IF backend = "none"
    THEN [W |-> W, ret |-> [k \in {keys[i] : i \in DOMAIN keys} |-> None]]
    ELSE Backend_mget(W, keys, fail)

\* hasattr(item, 'tags') on what backend.get returned: a JSON value (dict, list,
\* str, number, bool or None), which has no such attribute.
hasattr_tags(item) == FALSE

\* The loop of the last branch of invalidate_by_tags over backend.keys().
RECURSIVE invalidate_loop(_, _, _)
invalidate_loop(W, all_keys, tags) ==
    IF all_keys = <<>> THEN [W |-> W, ret |-> 0]
    ELSE LET g == MemoryBackend_get(W, Head(all_keys))
             hit == hasattr_tags(g.ret) /\ g.ret.tags \cap tags # {}
             W1 == IF hit THEN MemoryBackend_delete(g.W, Head(all_keys)).W ELSE g.W
             r == invalidate_loop(W1, Tail(all_keys), tags)
         IN  [W |-> r.W, ret |-> r.ret + (IF hit THEN 1 ELSE 0)]

\* CacheManager.invalidate_by_tags.  Redis: the loop body is `pass`.  Mongo: one
\* delete_many({"tags": {"$in": tags}}) on the collection, which is None (and
\* raises) before initialize.  Any other backend: the scan.
CacheManager_invalidate_by_tags(W, tags, fail) ==
    CASE backend = "redis" -> [W |-> W, ret |-> 0]
      [] backend = "mongo" ->
            IF ~W.initialized \/ fail = 1 THEN [W |-> W, ret |-> 0]
            ELSE [W |-> [W EXCEPT !.collection = {d \in @ : d.tags \cap tags = {}}],
                  ret |-> Cardinality({d \in W.collection : d.tags \cap tags # {}})]
      [] backend = "memory" ->
            LET k == MemoryBackend_keys(W, "*")
            IN  invalidate_loop(k.W, k.ret, tags)
      [] OTHER -> [W |-> W, ret |-> 0]

----------------------------------------------------------------------------
(* State after construction.                                               *)

NoMetrics ==
    [operations |-> [get |-> 0, set |-> 0, delete |-> 0, hit |-> 0, miss |-> 0],
     timings |-> [get |-> 0, set |-> 0, delete |-> 0],
     errors |-> [get |-> 0, set |-> 0, delete |-> 0]]

\* An asyncio task and the coroutine that cancels and awaits it.  pc is where
\* the task is suspended: "none" before create_task, "created" before its
\* first step, "sleep" in the sleep of the interval, "cycle" inside the work
\* of one turn, "backoff" in the sleep(60) of the except branch, "finished"
\* after the coroutine has returned and "cancelled" after CancelledError has
\* left it.  cancel is Task.cancel() having been called; waiter is the
\* stop() or shutdown() coroutine: "idle", "awaiting" the task, "returned".
NoTask == [pc |-> "none", cancel |-> FALSE, waiter |-> "idle"]

\* The coroutines that call the MemoryBackend of one process.
Callers == {"c1", "c2"}

Idle == [op |-> "-", key |-> "-", value |-> None, pc |-> "idle", items |-> <<>>]

\* The requests of one client to one path that the gateway checks together.
Requests == {"q1", "q2", "q3"}

\* CacheManager.__init__ (no backend yet), ClusterManager.__init__ and
\* CleanupScheduler.__init__ under some settings; RateLimiter.__init__ and
\* SessionStore.__init__ over empty Redis servers.
Constructed ==
    /\ now = 0
    /\ enable_clustering \in BOOLEAN
    /\ nodes = <<>>
    /\ consistent_hash_ring = <<>>
    /\ running = FALSE
    /\ remote = {}
    /\ health_check_task = NoTask
    /\ scheduler = [running |-> FALSE, task |-> NoTask,
                    stats |-> [cleanups_performed |-> 0, errors |-> 0]]
    /\ callers = [c \in Callers |-> Idle]
    /\ rate_limiter = [redis_client |-> FALSE, count |-> 0, calls |-> 0,
                       allowed |-> 0, requests |-> [q \in Requests |-> "idle"]]
    /\ session_store = [stored |-> FALSE, pc |-> "idle", depth |-> 0, ret |-> None,
                        gets |-> 0, setexs |-> 0]
    /\ cache_strategy \in Strategies
    /\ cache_backend \in Backends
    /\ backend = "none"
    /\ initialized = FALSE
    /\ cache = <<>>
    /\ current_size = 0
    /\ redis_keys = {}
    /\ redis_tags = {}
    /\ collection = {}
    /\ metrics = NoMetrics
    /\ last = [op |-> "init", note |-> "-"]

\* A manager configured for the memory backend, under each eviction policy.
Init ==
    /\ Constructed
    /\ cache_backend = "memory"
    /\ enable_clustering = FALSE

settings == <<cache_strategy, cache_backend, enable_clustering>>

\* The fields of the ClusterManager and the stores of its peers.
cluster == <<nodes, consistent_hash_ring, running, remote, health_check_task>>

\* The rate limiter of the gateway and the session store of the websocket
\* service.
services == <<rate_limiter, session_store>>

\* The CleanupScheduler and the callers of the memory backend, and the
\* coroutines of the other services.
coroutines == <<scheduler, callers, services>>

\* time.time() and datetime.utcnow() move on between two operations.
Tick ==
    /\ now < MaxTime
    /\ now' = now + 1
    /\ last' = [op |-> "tick", note |-> "-"]
    /\ UNCHANGED <<settings, backend, initialized, cache, current_size,
                   redis_keys, redis_tags, collection, metrics, cluster, coroutines>>

\* The model stops reading an item once its access_count is MaxAccess.
Bounded(W) ==
    /\ \A i \in DOMAIN W.cache : W.cache[i].access_count <= MaxAccess
    /\ \A d \in W.collection : d.access_count <= MaxAccess

\* How an operation finds its key in the backend: not stored, stored but
\* expired, or stored and live.
Found(key) ==
    CASE backend = "memory" ->
            IF ~Has(cache, key) THEN "missing"
            ELSE IF is_expired(Lookup(cache, key), now) THEN "expired" ELSE "live"
      [] backend = "mongo" ->
            IF ~MongoHas(collection, key) THEN "missing"
            ELSE IF doc_expired(find_one(collection, key)) THEN "expired" ELSE "live"
      [] backend = "redis" ->
            IF RedisHas(redis_keys, key) THEN "live" ELSE "missing"
      [] OTHER -> "missing"

\* The client calls of a method that can raise: none in the memory backend.
Fails(n) == IF backend = "memory" THEN {0} ELSE 0..n

\* A step of a backend method that leaves the objects W.  last names the last
\* step that changed anything, so a call that changes nothing leaves it.
Step(W, op, note) ==
    /\ cache' = W.cache
    /\ current_size' = W.current_size
    /\ initialized' = W.initialized
    /\ redis_keys' = W.redis_keys
    /\ redis_tags' = W.redis_tags
    /\ collection' = W.collection
    /\ last' = IF W = World THEN last ELSE [op |-> op, note |-> note]
    /\ UNCHANGED <<now, settings, backend, metrics, cluster, coroutines>>

\* CacheManager.initialize: the backend of settings.cache_backend is built and
\* its initialize() awaited, which raises (leaving it uninitialized) when the
\* Redis or Mongo server does not answer.
Initialize ==
    /\ backend = "none"
    /\ backend' = cache_backend
    /\ \E ok \in IF cache_backend = "memory" THEN {TRUE} ELSE BOOLEAN :
          /\ initialized' = ok
          /\ last' = [op |-> "initialize", note |-> ok]
    /\ UNCHANGED <<now, settings, cache, current_size, redis_keys, redis_tags,
                   collection, metrics, cluster, coroutines>>

\* The step of a set the initialized memory backend answered False to: last
\* names it although it may have changed nothing.
Refused(W) ==
    /\ cache' = W.cache
    /\ current_size' = W.current_size
    /\ last' = [op |-> "set", note |-> "refused"]
    /\ UNCHANGED <<now, settings, backend, initialized, redis_keys, redis_tags,
                   collection, metrics, cluster, coroutines>>

Set(key, value, ttl, tags) ==
    /\ backend # "none"
    /\ \E shuffle \in IF cache_strategy = "random"
                      THEN Shuffles(Cardinality(DictKeys(cache) \cup {key}))
                      ELSE {<<>>} :
       \E fail \in Fails(3) :
          LET r == Backend_set(World, key, value, ttl, tags, shuffle, fail)
          IN  IF backend = "memory" /\ initialized /\ ~r.ret
              THEN Refused(r.W)
              ELSE Step(r.W, "set",
                        IF Len(r.W.cache) <
                               Cardinality(DictKeys(cache) \cup DictKeys(r.W.cache) \cup
                                           (IF r.ret THEN {key} ELSE {}))
                        THEN "evicted" ELSE "kept")

Get(key) ==
    /\ backend # "none"
    /\ \E fail \in Fails(2) :
          LET r == Backend_get(World, key, fail)
          IN  Bounded(r.W) /\ Step(r.W, "get", Found(key))

Delete(key) ==
    /\ backend # "none"
    /\ \E fail \in Fails(2) :
          Step(Backend_delete(World, key, fail).W, "delete", Found(key))

Exists(key) ==
    /\ backend # "none"
    /\ \E fail \in Fails(2) :
          Step(Backend_exists(World, key, fail).W, "exists", Found(key))

KeyLists == {<<>>} \cup {<<k>> : k \in Keys} \cup {<<j, k>> : j, k \in Keys}

Mget(keys) ==
    \E fail \in Fails(1) :
       LET r == CacheManager_mget(World, keys, fail)
       IN  Bounded(r.W) /\ Step(r.W, "mget", "-")

ListKeys(pattern) ==
    /\ backend = "memory"
    /\ Step(MemoryBackend_keys(World, pattern).W, "keys", "-")

Clear(pattern) ==
    /\ backend = "memory"
    /\ Step(MemoryBackend_clear(World, pattern).W, "clear", "-")

InvalidateByTags(tags) ==
    \E fail \in Fails(1) :
       LET r == CacheManager_invalidate_by_tags(World, tags, fail)
       IN  Bounded(r.W) /\ Step(r.W, "invalidate_by_tags", r.ret)

\* The TTL monitor of the Mongo server, started by the expireAfterSeconds=0
\* index on expires_at: it removes the documents whose expires_at has come.
MongoTTLMonitor ==
    /\ backend = "mongo"
    /\ Step([World EXCEPT !.collection =
                 {d \in @ : d.expires_at = 0 \/ d.expires_at > now}],
            "ttl_monitor", "-")

\* The memory backend, untagged items, every eviction policy.
Next ==
    \/ Tick
    \/ Initialize
    \/ \E key \in Keys, value \in Values, ttl \in {0, 1} : Set(key, value, ttl, {})
    \/ \E key \in Keys : Get(key)
    \/ \E key \in Keys : Delete(key)
    \/ \E key \in Keys : Exists(key)
    \/ \E keys \in KeyLists : Mget(keys)
    \/ \E pattern \in Patterns : ListKeys(pattern)
    \/ \E pattern \in Patterns : Clear(pattern)

Spec == Init /\ [][Next]_vars

\* The three backends, tagged items of one size (no eviction), one policy.
InitBackends ==
    /\ Constructed
    /\ cache_strategy = "lru"
    /\ enable_clustering = FALSE

NextBackends ==
    \/ Tick
    \/ Initialize
    \/ \E key \in Keys, ttl \in {0, 1}, tags \in TagLists : Set(key, "a", ttl, tags)
    \/ \E key \in Keys : Get(key)
    \/ \E key \in Keys : Delete(key)
    \/ \E key \in Keys : Exists(key)
    \/ \E keys \in KeyLists : Mget(keys)
    \/ \E tags \in {{"lang"}, {"python"}} : InvalidateByTags(tags)
    \/ MongoTTLMonitor

SpecBackends == InitBackends /\ [][NextBackends]_vars

----------------------------------------------------------------------------
(* The facade methods that count in CacheManager.metrics; timings holds    *)
(* the length of each timing list.  A step gives the objects W, the        *)
(* metrics m and the value returned.                                       *)

CacheManager_get(W, m, key, fail) ==
    LET m1 == [m EXCEPT !.operations.get = @ + 1]
        r == Backend_get(W, key, fail)
        m2 == [m1 EXCEPT !.timings.get = @ + 1]
    IN  IF backend = "none"
        THEN [W |-> W, m |-> [m1 EXCEPT !.errors.get = @ + 1], ret |-> None]
        ELSE IF r.ret # None
        THEN [W |-> r.W, m |-> [m2 EXCEPT !.operations.hit = @ + 1], ret |-> r.ret]
        ELSE [W |-> r.W, m |-> [m2 EXCEPT !.operations.miss = @ + 1], ret |-> r.ret]

CacheManager_set(W, m, key, value, ttl, tags, shuffle, fail) ==
    LET m1 == [m EXCEPT !.operations.set = @ + 1]
        r == Backend_set(W, key, value, ttl, tags, shuffle, fail)
    IN  IF backend = "none"
        THEN [W |-> W, m |-> [m1 EXCEPT !.errors.set = @ + 1], ret |-> FALSE]
        ELSE [W |-> r.W, m |-> [m1 EXCEPT !.timings.set = @ + 1], ret |-> r.ret]

CacheManager_delete(W, m, key, fail) ==
    LET m1 == [m EXCEPT !.operations.delete = @ + 1]
        r == Backend_delete(W, key, fail)
    IN  IF backend = "none"
        THEN [W |-> W, m |-> [m1 EXCEPT !.errors.delete = @ + 1], ret |-> FALSE]
        ELSE [W |-> r.W, m |-> [m1 EXCEPT !.timings.delete = @ + 1], ret |-> r.ret]

\* CacheManager.exists without its try/except: the error of the backend call
\* reaches the caller.
exists_without_except(W, key, fail) ==
    IF backend = "none" THEN [W |-> W, ret |-> FALSE, raised |-> TRUE]
    ELSE [W |-> Backend_exists(W, key, fail).W,
          ret |-> Backend_exists(W, key, fail).ret, raised |-> FALSE]

\* The facade methods below count nothing.  With no backend yet self.backend
\* is None, the call on it raises and the except branch answers; raised tells
\* whether an exception left the method.
CacheManager_exists(W, key, fail) ==
    IF backend = "none" THEN [W |-> W, ret |-> FALSE, raised |-> FALSE]
    ELSE [W |-> Backend_exists(W, key, fail).W,
          ret |-> Backend_exists(W, key, fail).ret, raised |-> FALSE]

\* CacheManager.mset over the memory backend.
CacheManager_mset(W, items, ttl, tags, shuffles) ==
    IF backend = "memory"
    THEN [W |-> MemoryBackend_mset(W, items, ttl, tags, shuffles).W,
          ret |-> MemoryBackend_mset(W, items, ttl, tags, shuffles).ret,
          raised |-> FALSE]
    ELSE [W |-> W, ret |-> FALSE, raised |-> FALSE]

\* CacheManager.keys over the memory backend.
CacheManager_keys(W, pattern) ==
    IF backend = "memory"
    THEN LET k == MemoryBackend_keys(W, pattern)
         IN  [W |-> k.W, ret |-> k.ret, raised |-> FALSE]
    ELSE [W |-> W, ret |-> <<>>, raised |-> FALSE]

\* CacheManager.clear over the memory backend.
CacheManager_clear(W, pattern) ==
    IF backend = "memory"
    THEN LET c == MemoryBackend_clear(W, pattern)
         IN  [W |-> c.W, ret |-> c.ret, raised |-> FALSE]
    ELSE [W |-> W, ret |-> 0, raised |-> FALSE]

\* The length get_stats cuts a timing list to: 1000 samples in the code, one
\* sample here, so that a list grows past it within MaxOps operations.
timings_window == 1

\* CacheManager.get_stats over the memory backend: the statistics of the
\* backend and the counters; each timing list longer than the window is cut
\* to its last samples.
CacheManager_get_stats(W, m) ==
    IF backend = "memory"
    THEN LET backend_stats == MemoryBackend_get_stats(W)
         IN  [W |-> backend_stats.W,
              m |-> [m EXCEPT !.timings =
                         [op \in DOMAIN @ |-> IF @[op] > timings_window
                                                 THEN timings_window ELSE @[op]]],
              ret |-> [backend |-> backend_stats.ret,
                       operations |-> m.operations, error_count |-> m.errors],
              raised |-> FALSE]
    ELSE [W |-> W, m |-> m,
          ret |-> [error |-> "'NoneType' object has no attribute 'get_stats'"],
          raised |-> FALSE]

\* What awaiting fallback_func() can give: an exception, None or a payload.
Raise == "raise"
Outcomes == {Raise, None, "a", "xxxx"}

\* get_with_fallback without the self.set call.
get_with_fallback_not_storing(W, m, key, outcome, ttl, tags, shuffle, fail) ==
    LET g == CacheManager_get(W, m, key, fail)
    IN  IF g.ret # None
        THEN [W |-> g.W, m |-> g.m, ret |-> g.ret, raised |-> FALSE,
              cached |-> g.ret, calls |-> 0, stored |-> "no set"]
        ELSE [W |-> g.W, m |-> g.m, ret |-> IF outcome = Raise THEN None ELSE outcome,
              raised |-> outcome = Raise, cached |-> g.ret, calls |-> 1,
              stored |-> "no set"]

\* get_with_fallback with an except branch that returns None and does not raise.
get_with_fallback_swallowing(W, m, key, outcome, ttl, tags, shuffle, fail) ==
    LET g == CacheManager_get(W, m, key, fail)
        s == CacheManager_set(g.W, g.m, key, outcome, ttl, tags, shuffle, fail)
    IN  IF g.ret # None
        THEN [W |-> g.W, m |-> g.m, ret |-> g.ret, raised |-> FALSE,
              cached |-> g.ret, calls |-> 0, stored |-> "no set"]
        ELSE IF outcome \in {Raise, None}
        THEN [W |-> g.W, m |-> g.m, ret |-> None, raised |-> FALSE,
              cached |-> g.ret, calls |-> 1, stored |-> "no set"]
        ELSE [W |-> s.W, m |-> s.m, ret |-> outcome, raised |-> FALSE,
              cached |-> g.ret, calls |-> 1,
              stored |-> IF s.ret THEN "stored" ELSE "refused"]

\* CacheManager.get_with_fallback.  calls counts the calls of fallback_func,
\* stored is what self.set answered ("no set" when it was not called), raised
\* tells that the exception of fallback_func was raised again.
CacheManager_get_with_fallback(W, m, key, outcome, ttl, tags, shuffle, fail) ==
    LET g == CacheManager_get(W, m, key, fail)
        s == CacheManager_set(g.W, g.m, key, outcome, ttl, tags, shuffle, fail)
    IN  IF g.ret # None
        THEN [W |-> g.W, m |-> g.m, ret |-> g.ret, raised |-> FALSE,
              cached |-> g.ret, calls |-> 0, stored |-> "no set"]
        ELSE IF outcome = Raise
        THEN [W |-> g.W, m |-> g.m, ret |-> None, raised |-> TRUE,
              cached |-> g.ret, calls |-> 1, stored |-> "no set"]
        ELSE IF outcome # None
        THEN [W |-> s.W, m |-> s.m, ret |-> outcome, raised |-> FALSE,
              cached |-> g.ret, calls |-> 1,
              stored |-> IF s.ret THEN "stored" ELSE "refused"]
        ELSE [W |-> g.W, m |-> g.m, ret |-> outcome, raised |-> FALSE,
              cached |-> g.ret, calls |-> 1, stored |-> "no set"]

\* The model stops counting the operations of one kind at MaxOps.
Counted(m) == \A op \in {"get", "set", "delete"} : m.operations[op] <= MaxOps

FacadeStep(r, op, note) ==
    /\ Bounded(r.W)
    /\ Counted(r.m)
    /\ cache' = r.W.cache
    /\ current_size' = r.W.current_size
    /\ initialized' = r.W.initialized
    /\ redis_keys' = r.W.redis_keys
    /\ redis_tags' = r.W.redis_tags
    /\ collection' = r.W.collection
    /\ metrics' = r.m
    /\ last' = [op |-> op, note |-> note]
    /\ UNCHANGED <<now, settings, backend, cluster, coroutines>>

FacadeGet(key) ==
    \E fail \in Fails(2) :
       LET r == CacheManager_get(World, metrics, key, fail)
       IN  FacadeStep(r, "get", r.ret)

FacadeSet(key, value, ttl, tags) ==
    \E fail \in Fails(3) :
       LET r == CacheManager_set(World, metrics, key, value, ttl, tags, <<>>, fail)
       IN  FacadeStep(r, "set", r.ret)

FacadeDelete(key) ==
    \E fail \in Fails(2) :
       LET r == CacheManager_delete(World, metrics, key, fail)
       IN  FacadeStep(r, "delete", r.ret)

\* On a cache hit fallback_func, ttl and tags are not looked at.
GetWithFallback(key, outcome, ttl, tags) ==
    \E fail \in Fails(1) :
       LET r == CacheManager_get_with_fallback(World, metrics, key, outcome, ttl,
                                               tags, <<>>, fail)
           hit == r.calls = 0
       IN  /\ hit => outcome = None
           /\ FacadeStep(r, "get_with_fallback",
                         [key |-> key, found |-> Found(key), cached |-> r.cached,
                          outcome |-> IF hit THEN "-" ELSE outcome,
                          ttl |-> ttl, tags |-> tags, calls |-> r.calls,
                          stored |-> r.stored, ret |-> r.ret, raised |-> r.raised,
                          sets |-> r.m.operations.set - metrics.operations.set])

\* The facade over the memory backend, one eviction policy.
InitFacade ==
    /\ Constructed
    /\ cache_strategy = "lru"
    /\ cache_backend = "memory"
    /\ enable_clustering = FALSE

NextFacade ==
    \/ Tick
    \/ Initialize
    \/ \E key \in Keys : FacadeGet(key)
    \/ \E key \in Keys, value \in {"a", None} : FacadeSet(key, value, 1, {})
    \/ \E key \in Keys : FacadeDelete(key)
    \/ \E key \in Keys, outcome \in Outcomes : GetWithFallback(key, outcome, 1, {"lang"})

SpecFacade == InitFacade /\ [][NextFacade]_vars

----------------------------------------------------------------------------
(* ClusterManager.  The peers are the nodes initialize() reads from        *)
(* settings.cluster_nodes, a str, which it iterates character by           *)
(* character.  What a peer answers to a probe or to a push is the          *)
(* environment's choice.                                                   *)

node_id == "cache-node-1"
cluster_nodes == <<"k", "r">>
self_url == "http://cache-node-1:8003"
version == "1.0.0"

\* The number of ring points per node (100 in the source) and the size of the
\* hash space (2**32 in the source), scaled down together.
virtual_nodes == 2
HashSpace == 1024

\* psutil's readings, as _calculate_load and the /health response give them.
Loads == {0, 50}

\* The low 16 bits of int(hashlib.md5(s.encode()).hexdigest(), 16).
md5(s) ==
    CASE s = "cache-node-1#0" -> 49966
      [] s = "cache-node-1#1" -> 46069
      [] s = "k#0" -> 18597
      [] s = "k#1" -> 33190
      [] s = "r#0" -> 32068
      [] s = "r#1" -> 9638
      [] s = "tech:python" -> 50646
      [] s = "temp:job" -> 57358

hash_key(key) == md5(key) % HashSpace

ClusterNode(id, url, status, last_seen, load, ver) ==
    [id |-> id, url |-> url, status |-> status, last_seen |-> last_seen,
     load |-> load, version |-> ver]

\* The dict self.nodes: membership, lookup, assignment and del.
NodeIds(ns) == {ns[i].id : i \in DOMAIN ns}
NodeGet(ns, id) == ns[CHOOSE i \in DOMAIN ns : ns[i].id = id]
NodePut(ns, n) ==
    IF n.id \in NodeIds(ns)
    THEN [i \in DOMAIN ns |-> IF ns[i].id = n.id THEN n ELSE ns[i]]
    ELSE Append(ns, n)
NodeDel(ns, id) == SelectSeq(ns, LAMBDA n : n.id # id)

\* _extract_node_id on one character of settings.cluster_nodes.
extract_node_id(url) == url

\* ring[hash_value] = node_id on a dict.
RingPut(ring, h, id) ==
    [p \in DOMAIN ring \cup {h} |-> IF p = h THEN id ELSE ring[p]]

\* sorted(self.consistent_hash_ring.keys())
RECURSIVE SortedSet(_)
SortedSet(S) ==
    IF S = {} THEN <<>>
    ELSE LET lo == CHOOSE x \in S : \A y \in S : x <= y
         IN  <<lo>> \o SortedSet(S \ {lo})

\* The inner loop of _build_hash_ring: the points "<node_id>#<i>" of one node.
RECURSIVE add_virtual_nodes(_, _, _)
add_virtual_nodes(ring, id, i) ==
    IF i >= virtual_nodes THEN ring
    ELSE add_virtual_nodes(RingPut(ring, hash_key(id \o "#" \o ToString(i)), id),
                           id, i + 1)

\* The outer loop of _build_hash_ring over self.nodes.items().
RECURSIVE build_loop(_, _)
build_loop(ring, ns) ==
    IF ns = <<>> THEN ring
    ELSE build_loop(IF Head(ns).status = "online"
                    THEN add_virtual_nodes(ring, Head(ns).id, 0) ELSE ring,
                    Tail(ns))

\* The ring as another coroutine would find it inside _build_hash_ring, before
\* the last point is put.
build_hash_ring_partly(ns) ==
    LET full == build_loop(<<>>, ns)
    IN  [p \in {q \in DOMAIN full : \E q2 \in DOMAIN full : q2 > q} |-> full[p]]

\* _build_hash_ring: the new value of consistent_hash_ring.
build_hash_ring(ns) == build_loop(<<>>, ns)

\* The index (from 1) of the first hash >= key_hash in the sorted list, 0 when
\* the loop ends without one.
RECURSIVE first_at_or_after(_, _, _)
first_at_or_after(hashes, key_hash, i) ==
    IF i > Len(hashes) THEN 0
    ELSE IF hashes[i] >= key_hash THEN i
    ELSE first_at_or_after(hashes, key_hash, i + 1)

\* get_node_for_key whose fallback takes the last point of the ring.
get_node_for_key_from_max(ring, key) ==
    IF DOMAIN ring = {} THEN None
    ELSE LET hashes == SortedSet(DOMAIN ring)
             i == first_at_or_after(hashes, hash_key(key), 1)
         IN  IF i # 0 THEN ring[hashes[i]] ELSE ring[hashes[Len(hashes)]]

get_node_for_key(ring, key) ==
    IF DOMAIN ring = {} THEN None
    ELSE LET hashes == SortedSet(DOMAIN ring)
             i == first_at_or_after(hashes, hash_key(key), 1)
         IN  IF i # 0 THEN ring[hashes[i]] ELSE ring[hashes[1]]

\* The second loop of _get_replica_nodes: replication_factor consecutive
\* points from start_idx, a node being listed once.
RECURSIVE replica_loop(_, _, _, _, _, _)
replica_loop(ring, hashes, start_idx, i, replication_factor, replica_nodes) ==
    IF i >= replication_factor THEN replica_nodes
    ELSE LET idx == ((start_idx - 1 + i) % Len(hashes)) + 1
             id == ring[hashes[idx]]
         IN  replica_loop(ring, hashes, start_idx, i + 1, replication_factor,
                          IF \E j \in DOMAIN replica_nodes : replica_nodes[j] = id
                          THEN replica_nodes ELSE Append(replica_nodes, id))

\* _get_replica_nodes; start_idx stays at the first point when no hash is
\* >= key_hash.
get_replica_nodes(ring, key, replication_factor) ==
    IF DOMAIN ring = {} THEN <<>>
    ELSE LET hashes == SortedSet(DOMAIN ring)
             i == first_at_or_after(hashes, hash_key(key), 1)
         IN  replica_loop(ring, hashes, IF i = 0 THEN 1 ELSE i, 0,
                          replication_factor, <<>>)

\* route_request: the url of the owner when it is another, online node.
route_request(ns, ring, key) ==
    IF ~enable_clustering THEN None
    ELSE LET id == get_node_for_key(ring, key)
         IN  IF id # None /\ id # node_id /\ id \in NodeIds(ns)
                /\ NodeGet(ns, id).status = "online"
             THEN NodeGet(ns, id).url
             ELSE None

\* The X-Replication-Secret values a request can carry: none, a word, a word
\* with the prefix only, and f"replicate-{node_id}-{int(time.time() / 3600)}".
expected_secret == "replicate-cache-node-1-0"
Secrets == {None, "secret", "replicate-", expected_secret}
startswith_replicate(secret) == secret \in {"replicate-", expected_secret}

\* The status replicate_cache answers with before it touches the cache
\* (200: it goes on to cache_manager.set).
replicate_response(secret, value) ==
    IF secret = None \/ ~startswith_replicate(secret) THEN 403
    ELSE IF value = None THEN 400
    ELSE 200

\* The handler replicate_cache of routers/cache.py.
replicate_cache(W, m, secret, key, value, ttl, shuffle) ==
    IF replicate_response(secret, value) # 200
    THEN [W |-> W, m |-> m, status |-> replicate_response(secret, value),
          success |-> FALSE]
    ELSE [W |-> CacheManager_set(W, m, key, value, ttl, {}, shuffle, 0).W,
          m |-> CacheManager_set(W, m, key, value, ttl, {}, shuffle, 0).m,
          status |-> 200,
          success |-> CacheManager_set(W, m, key, value, ttl, {}, shuffle, 0).ret]

\* The X-Replication-Secret header of the POST of _replicate_to_node: it sends
\* the json payload and no header.
push_secret == None

\* _replicate_to_node: the peer, when it answers (up), runs its own
\* replicate_cache on the request; no answer is an exception.
replicate_to_node(rem, node, key, value, ttl, up) ==
    IF node.id \notin up THEN [remote |-> rem, ret |-> FALSE]
    ELSE IF replicate_response(push_secret, value) = 200
    THEN [remote |-> rem \cup {[node |-> node.id, key |-> key, value |-> value]},
          ret |-> TRUE]
    ELSE [remote |-> rem, ret |-> FALSE]

\* The pushes of replicate_data, one per task.
RECURSIVE gather_replication(_, _, _, _, _, _, _)
gather_replication(ns, rem, tasks, key, value, ttl, up) ==
    IF tasks = <<>> THEN [remote |-> rem, success_count |-> 0]
    ELSE LET r == replicate_to_node(rem, NodeGet(ns, Head(tasks)), key, value,
                                    ttl, up)
             g == gather_replication(ns, r.remote, Tail(tasks), key, value, ttl, up)
         IN  [remote |-> g.remote,
              success_count |-> g.success_count + (IF r.ret THEN 1 ELSE 0)]

\* replicate_data that answers False when it has no node to push to.
replicate_data_needing_a_push(ns, ring, rem, key, value, ttl, up) ==
    [remote |-> rem, ret |-> FALSE, tasks |-> <<>>]

\* replicate_data, with replication_factor = 2.
replicate_data(ns, ring, rem, key, value, ttl, up) ==
    IF ~enable_clustering THEN [remote |-> rem, ret |-> TRUE, tasks |-> <<>>]
    ELSE LET replica_nodes == get_replica_nodes(ring, key, 2)
             tasks == SelectSeq(replica_nodes,
                                LAMBDA id : /\ id # node_id
                                            /\ id \in NodeIds(ns)
                                            /\ NodeGet(ns, id).status = "online")
             g == gather_replication(ns, rem, tasks, key, value, ttl, up)
         IN  IF tasks # <<>>
             THEN [remote |-> g.remote, ret |-> g.success_count > 0, tasks |-> tasks]
             ELSE [remote |-> rem, ret |-> TRUE, tasks |-> tasks]

\* "://" in url: only the url built for the local node has a scheme.
has_scheme(url) == url = self_url

\* The handler set_cache of routers/cache.py.  The write is local in both
\* branches; what replicate_data returns is dropped; the response of the first
\* branch names the primary node by primary_node.split("://")[1], which raises
\* (status 500) on a url without "://".
set_cache(W, m, ns, ring, rem, key, value, ttl, tags, shuffle, up) ==
    LET primary_node == IF enable_clustering THEN route_request(ns, ring, key)
                        ELSE None
        s == CacheManager_set(W, m, key, value, ttl, tags, shuffle, 0)
        d == IF s.ret /\ enable_clustering
             THEN replicate_data(ns, ring, rem, key, value, ttl, up).remote
             ELSE rem
    IN  IF primary_node # None /\ primary_node # self_url
        THEN [W |-> s.W, m |-> s.m, remote |-> d,
              status |-> IF has_scheme(primary_node) THEN 200 ELSE 500,
              success |-> has_scheme(primary_node) /\ s.ret,
              primary_node |-> primary_node]
        ELSE [W |-> s.W, m |-> s.m, remote |-> d, status |-> 200,
              success |-> s.ret, primary_node |-> node_id]

\* What the GET of f"{node.url}/api/v1/health" gives: the response of the
\* health_check handler of the peer (status, version, the cpu_percent of its
\* "system" part), a status other than 200, or no response (status 0).
Answers ==
    {[status |-> 200, version |-> version, cpu_percent |-> l] : l \in Loads}
        \cup {[status |-> 503, version |-> version, cpu_percent |-> 0],
              [status |-> 0, version |-> "-", cpu_percent |-> 0]}

\* _check_node_health: the node after the probe.
check_node_health(node, answer) ==
    IF answer.status = 200
    THEN [node EXCEPT !.status = "online", !.last_seen = now,
                      !.version = answer.version]
    ELSE [node EXCEPT !.status = "offline"]

\* _check_nodes_health probing the local node like a peer, its probe failing.
check_nodes_health_probing_self(ns, answers, load) ==
    [i \in DOMAIN ns |->
        IF ns[i].id = node_id
        THEN [ns[i] EXCEPT !.status = "offline"]
        ELSE check_node_health(ns[i], answers[ns[i].id])]

\* _check_nodes_health: answers maps the node ids to what their probe gives,
\* load is what _calculate_load returns.
check_nodes_health(ns, answers, load) ==
    [i \in DOMAIN ns |->
        IF ns[i].id = node_id
        THEN [ns[i] EXCEPT !.last_seen = now, !.load = load]
        ELSE check_node_health(ns[i], answers[ns[i].id])]

\* One turn of _health_check_loop after its sleep.
health_check_pass(ns, answers, load) ==
    [nodes |-> check_nodes_health(ns, answers, load),
     ring |-> build_hash_ring(check_nodes_health(ns, answers, load))]

\* The nodes initialize() adds after the local one.
RECURSIVE add_configured(_, _)
add_configured(ns, urls) ==
    IF urls = <<>> THEN ns
    ELSE add_configured(
             IF extract_node_id(Head(urls)) # node_id
             THEN NodePut(ns, ClusterNode(extract_node_id(Head(urls)), Head(urls),
                                          "unknown", 0, 0, "unknown"))
             ELSE ns,
             Tail(urls))

\* ClusterManager.initialize: the node table it builds.
initialize_nodes ==
    add_configured(<<ClusterNode(node_id, self_url, "online", now, 0, version)>>,
                   cluster_nodes)

\* A step of the ClusterManager that leaves the cache alone.
ClusterStep(ns, ring, op, note) ==
    /\ nodes' = ns
    /\ consistent_hash_ring' = ring
    /\ last' = [op |-> op, note |-> note]
    /\ UNCHANGED <<now, settings, backend, initialized, cache, current_size,
                   redis_keys, redis_tags, collection, metrics, remote, coroutines>>

\* main.py builds the ClusterManager and awaits initialize() when
\* settings.enable_clustering is set, once in the life of the process.
ClusterInitialize ==
    /\ enable_clustering
    /\ ~running
    /\ health_check_task.pc = "none"
    /\ running' = TRUE
    /\ health_check_task' = [NoTask EXCEPT !.pc = "created"]
    /\ ClusterStep(initialize_nodes, build_hash_ring(initialize_nodes),
                   "cluster_initialize", "-")

\* The peers of the configuration, and what their probes give in one pass.
Peers == NodeIds(initialize_nodes) \ {node_id}
AnswerMaps == [Peers -> Answers]

HealthCheckLoop ==
    /\ running
    /\ \E answers \in AnswerMaps, load \in Loads :
          LET r == health_check_pass(nodes, answers, load)
          IN  ClusterStep(r.nodes, r.ring, "health_check", "-")
    /\ UNCHANGED <<running, health_check_task>>

\* join_cluster: ClusterNode is not imported in routers/cluster.py, so building
\* the node raises NameError and the handler answers 500.
join_cluster(ns, ring, id) ==
    IF id \in NodeIds(ns) THEN [nodes |-> ns, ring |-> ring, status |-> 400]
    ELSE [nodes |-> ns, ring |-> ring, status |-> 500]

\* leave_cluster
leave_cluster(ns, ring, id) ==
    IF id \notin NodeIds(ns) THEN [nodes |-> ns, ring |-> ring, status |-> 404]
    ELSE [nodes |-> NodeDel(ns, id), ring |-> build_hash_ring(NodeDel(ns, id)),
          status |-> 200]

\* get_node_health: the local node is reported from psutil; another node is
\* probed with _check_node_health.
get_node_health(ns, ring, id, answer) ==
    IF id \notin NodeIds(ns) THEN [nodes |-> ns, ring |-> ring, status |-> 404]
    ELSE IF id = node_id THEN [nodes |-> ns, ring |-> ring, status |-> 200]
    ELSE [nodes |-> NodePut(ns, check_node_health(NodeGet(ns, id), answer)),
          ring |-> ring, status |-> 200]

\* rebalance_cluster
rebalance_cluster(ns, ring) ==
    [nodes |-> ns, ring |-> build_hash_ring(ns), status |-> 200]

JoinCluster(id) ==
    /\ running
    /\ LET r == join_cluster(nodes, consistent_hash_ring, id)
       IN  ClusterStep(r.nodes, r.ring, "join", r.status)
    /\ UNCHANGED <<running, health_check_task>>

LeaveCluster(id) ==
    /\ running
    /\ LET r == leave_cluster(nodes, consistent_hash_ring, id)
       IN  ClusterStep(r.nodes, r.ring, "leave", r.status)
    /\ UNCHANGED <<running, health_check_task>>

NodeHealth(id) ==
    /\ running
    /\ \E answer \in Answers :
          LET r == get_node_health(nodes, consistent_hash_ring, id, answer)
          IN  ClusterStep(r.nodes, r.ring, "node_health", r.status)
    /\ UNCHANGED <<running, health_check_task>>

Rebalance ==
    /\ running
    /\ LET r == rebalance_cluster(nodes, consistent_hash_ring)
       IN  ClusterStep(r.nodes, r.ring, "rebalance", r.status)
    /\ UNCHANGED <<running, health_check_task>>

\* A step of a handler of routers/cache.py.
RouterStep(r, rem, op, note) ==
    /\ Counted(r.m)
    /\ cache' = r.W.cache
    /\ current_size' = r.W.current_size
    /\ metrics' = r.m
    /\ remote' = rem
    /\ last' = [op |-> op, note |-> note]
    /\ UNCHANGED <<now, settings, backend, initialized, redis_keys, redis_tags,
                   collection, nodes, consistent_hash_ring, running,
                   health_check_task, coroutines>>

\* PUT /cache/{key}; up is the set of peers that answer a push.
PutCache(key, value) ==
    /\ running
    /\ backend = "memory"
    /\ \E up \in SUBSET Peers :
          LET r == set_cache(World, metrics, nodes, consistent_hash_ring, remote,
                             key, value, 0, {}, <<>>, up)
          IN  RouterStep(r, r.remote, "put",
                         [key |-> key, status |-> r.status, success |-> r.success])

\* POST /cache/replicate
ReplicateCache(secret, key, value) ==
    /\ running
    /\ backend = "memory"
    /\ LET r == replicate_cache(World, metrics, secret, key, value, 0, <<>>)
       IN  RouterStep(r, remote, "replicate",
                      [secret |-> secret, status |-> r.status])

\* A clustered node over the memory backend.
InitCluster ==
    /\ Constructed
    /\ cache_strategy = "lru"
    /\ cache_backend = "memory"
    /\ enable_clustering = TRUE

\* Membership and health of the cluster.
NextCluster ==
    \/ Tick
    \/ ClusterInitialize
    \/ HealthCheckLoop
    \/ \E id \in NodeIds(initialize_nodes) : JoinCluster(id)
    \/ \E id \in NodeIds(initialize_nodes) : LeaveCluster(id)
    \/ \E id \in NodeIds(initialize_nodes) : NodeHealth(id)
    \/ Rebalance

SpecCluster == InitCluster /\ [][NextCluster]_vars

\* Writes and pushed writes on a clustered node.
NextReplication ==
    \/ Initialize
    \/ ClusterInitialize
    \/ HealthCheckLoop
    \/ \E key \in Keys, value \in {"a", "bb"} : PutCache(key, value)
    \/ \E secret \in Secrets, key \in Keys, value \in {"a", None} :
          ReplicateCache(secret, key, value)

SpecReplication == InitCluster /\ [][NextReplication]_vars

\* The memory backend with a third key, so that an eviction pass can take
\* more than one item: writes and reads only, every eviction policy.  Only
\* temp:job is written with a ttl of its own (one second), the other keys
\* with the default.
EvictionKeys == Keys \cup {"lock:x"}

EvictionTTLs(key) == IF key = "temp:job" THEN {0, 1} ELSE {0}

NextEviction ==
    \/ Tick
    \/ Initialize
    \/ \E key \in EvictionKeys, value \in {"a", "bb"} :
          \E ttl \in EvictionTTLs(key) : Set(key, value, ttl, {})
    \/ \E key \in Keys : Get(key)

SpecEviction == Init /\ [][NextEviction]_vars

----------------------------------------------------------------------------
(* The background loops: CleanupScheduler of app/cleanup_scheduler.py and  *)
(* ClusterManager._health_check_loop.  A step of a task is what it does    *)
(* between two of its suspensions.                                         *)

MaxErrors == 2          \* the loop stops failing once stats["errors"] is here

\* The names bound in the module cleanup_scheduler.py: its imports and its
\* own definitions.
cleanup_scheduler_globals ==
    {"asyncio", "time", "Optional", "Dict", "Any", "structlog", "CacheManager",
     "logger", "CleanupScheduler"}

\* CancelledError thrown into a loop that swallows it at every suspension
\* and goes on to its next turn.
loop_swallowing_cancel(pc) == "backoff"

\* CancelledError thrown into _cleanup_loop or _health_check_loop where it is
\* suspended.  The sleep of the interval and the work stand in the try whose
\* `except asyncio.CancelledError` breaks out of the loop; sleep(60) stands in
\* the `except Exception` handler, so there the error leaves the coroutine;
\* a task that has not run yet never starts.
loop_cancelled(pc) ==
    IF pc \in {"sleep", "cycle"} THEN "finished" ELSE "cancelled"

\* task.cancel() followed by `await task` in stop() and shutdown().
cancel_and_await(task) ==
    IF task.pc = "none" THEN [task EXCEPT !.waiter = "returned"]
    ELSE [task EXCEPT !.cancel = TRUE, !.waiter = "awaiting"]

\* `await task` of stop() and shutdown() resumes once the task is done; a
\* CancelledError it raises is caught.
TaskDone(task) == task.pc \in {"finished", "cancelled"}

\* CleanupScheduler.start: the log call after create_task reads settings.
start(s) ==
    IF s.running THEN [s |-> s, raised |-> None]
    ELSE [s |-> [s EXCEPT !.running = TRUE, !.task = [NoTask EXCEPT !.pc = "created"]],
          raised |-> IF "settings" \in cleanup_scheduler_globals
                     THEN None ELSE "NameError"]

\* CleanupScheduler.stop
stop(s) ==
    IF ~s.running THEN [s EXCEPT !.task.waiter = "returned"]
    ELSE [s EXCEPT !.running = FALSE, !.task = cancel_and_await(@)]

\* The head of a turn of _cleanup_loop, up to its first suspension: the test
\* of self.running, then asyncio.sleep(settings.cleanup_interval_seconds),
\* whose argument is evaluated before anything is awaited.
cleanup_loop_head(s) ==
    IF ~s.running THEN [s EXCEPT !.task.pc = "finished"]
    ELSE IF "settings" \in cleanup_scheduler_globals
         THEN [s EXCEPT !.task.pc = "sleep"]
         ELSE [s EXCEPT !.stats.errors = @ + 1, !.task.pc = "backoff"]

\* One step of the task of _cleanup_loop; ok is whether the work of
\* _perform_cleanup only returns.  _perform_cleanup catches every Exception of
\* its body itself and counts it, and the loop goes to its next turn.
cleanup_loop(s, ok) ==
    IF s.task.cancel THEN [s EXCEPT !.task.pc = loop_cancelled(@)]
    ELSE CASE s.task.pc \in {"created", "backoff"} -> cleanup_loop_head(s)
           [] s.task.pc = "sleep" ->
                IF {"settings", "CacheBackend"} \subseteq cleanup_scheduler_globals
                THEN [s EXCEPT !.task.pc = "cycle"]
                ELSE cleanup_loop_head([s EXCEPT !.stats.errors = @ + 1])
           [] s.task.pc = "cycle" ->
                cleanup_loop_head(
                    IF ok THEN [s EXCEPT !.stats.cleanups_performed = @ + 1]
                    ELSE [s EXCEPT !.stats.errors = @ + 1])

\* One step of the task of _health_check_loop.  outcome is what
\* _calculate_load does in _check_nodes_health before any probe is awaited:
\* "error" when psutil raises.  The probes are awaited in "cycle"; the step
\* that ends them sets what they found and rebuilds the ring, the local
\* node's last_seen and load being set in that step too.
health_check_loop(task, run, ns, ring, outcome, answers, load) ==
    LET head == IF run THEN "sleep" ELSE "finished"
    IN  IF task.cancel
        THEN [task |-> [task EXCEPT !.pc = loop_cancelled(@)],
              nodes |-> ns, ring |-> ring]
        ELSE CASE task.pc \in {"created", "backoff"} ->
                    [task |-> [task EXCEPT !.pc = head], nodes |-> ns, ring |-> ring]
               [] task.pc = "sleep" ->
                    [task |-> [task EXCEPT !.pc = IF outcome = "ok" THEN "cycle"
                                                  ELSE "backoff"],
                     nodes |-> ns, ring |-> ring]
               [] task.pc = "cycle" ->
                    [task |-> [task EXCEPT !.pc = head],
                     nodes |-> health_check_pass(ns, answers, load).nodes,
                     ring |-> health_check_pass(ns, answers, load).ring]

Suspended(task) == task.pc \in {"created", "sleep", "cycle", "backoff"}

\* A step of the CleanupScheduler.
SchedulerStep(s, op, note) ==
    /\ scheduler' = s
    /\ last' = [op |-> op, note |-> note]
    /\ UNCHANGED <<now, settings, backend, initialized, cache, current_size,
                   redis_keys, redis_tags, collection, metrics, cluster, callers,
                   services>>

SchedulerStart ==
    /\ scheduler.task.waiter = "idle"
    /\ SchedulerStep(start(scheduler).s, "start", start(scheduler).raised)

CleanupLoop ==
    /\ Suspended(scheduler.task)
    /\ \E ok \in BOOLEAN :
          /\ cleanup_loop(scheduler, ok).stats.errors <= MaxErrors
          /\ SchedulerStep(cleanup_loop(scheduler, ok), "cleanup_loop", "-")

SchedulerStop ==
    /\ scheduler.task.waiter = "idle"
    /\ SchedulerStep(stop(scheduler), "stop", "-")

SchedulerStopReturns ==
    /\ scheduler.task.waiter = "awaiting"
    /\ TaskDone(scheduler.task)
    /\ SchedulerStep([scheduler EXCEPT !.task.waiter = "returned"], "stop", "returned")

HealthCheckTask ==
    /\ Suspended(health_check_task)
    /\ \E outcome \in IF health_check_task.pc = "sleep" /\ ~health_check_task.cancel
                       THEN {"ok", "error"} ELSE {"ok"},
          answers \in IF health_check_task.pc = "cycle" /\ ~health_check_task.cancel
                       THEN AnswerMaps ELSE {[id \in Peers |-> CHOOSE x \in Answers : TRUE]},
          load \in IF health_check_task.pc = "cycle" /\ ~health_check_task.cancel
                    THEN Loads ELSE {0} :
          LET r == health_check_loop(health_check_task, running, nodes,
                                     consistent_hash_ring, outcome, answers, load)
          IN  /\ health_check_task' = r.task
              /\ ClusterStep(r.nodes, r.ring, "health_check_task", "-")
    /\ UNCHANGED running

\* ClusterManager.shutdown
Shutdown ==
    /\ running
    /\ health_check_task.waiter = "idle"
    /\ running' = FALSE
    /\ health_check_task' = cancel_and_await(health_check_task)
    /\ ClusterStep(nodes, consistent_hash_ring, "shutdown", "-")

ShutdownReturns ==
    /\ health_check_task.waiter = "awaiting"
    /\ TaskDone(health_check_task)
    /\ health_check_task' = [health_check_task EXCEPT !.waiter = "returned"]
    /\ ClusterStep(nodes, consistent_hash_ring, "shutdown", "returned")
    /\ UNCHANGED running

\* A routing lookup of a request handler: get_node_for_key and
\* _get_replica_nodes read the ring in one step.
Route(key) ==
    /\ running
    /\ ClusterStep(nodes, consistent_hash_ring, "route",
                   [owner |-> get_node_for_key(consistent_hash_ring, key),
                    replicas |-> get_replica_nodes(consistent_hash_ring, key, 2)])
    /\ UNCHANGED <<running, health_check_task>>

\* The two loops with their start and stop.
NextLoops ==
    \/ SchedulerStart
    \/ CleanupLoop
    \/ SchedulerStop
    \/ SchedulerStopReturns
    \/ ClusterInitialize
    \/ HealthCheckTask
    \/ Shutdown
    \/ ShutdownReturns

SpecLoops == InitCluster /\ [][NextLoops]_vars

\* The health-check loop among the handlers that rebuild or read the ring.
NextRouting ==
    \/ ClusterInitialize
    \/ HealthCheckTask
    \/ \E id \in NodeIds(initialize_nodes) : JoinCluster(id)
    \/ \E id \in NodeIds(initialize_nodes) : LeaveCluster(id)
    \/ Rebalance
    \/ \E key \in Keys : Route(key)

SpecRouting == InitCluster /\ [][NextRouting]_vars

\* The event loop runs every task that can take a step: the two loops and
\* the coroutines awaiting them.
FairLoops ==
    /\ SpecLoops
    /\ WF_vars(CleanupLoop)
    /\ WF_vars(HealthCheckTask)
    /\ WF_vars(SchedulerStopReturns)
    /\ WF_vars(ShutdownReturns)

----------------------------------------------------------------------------
(* Coroutines calling one MemoryBackend.  The event loop runs one          *)
(* coroutine at a time, from one suspension to the next; a step of a       *)
(* caller is what its call does up to the next await that suspends.        *)

\* The backend object at the call of _evict_if_needed in set(key, value, ttl).
BeforeEviction(M, key, value, ttl) ==
    [M EXCEPT !.cache = DictPut(M.cache, key, CacheItem(key, value, ttl, {}, now)),
              !.current_size =
                  @ - (IF Has(M.cache, key)
                       THEN get_item_size(Lookup(M.cache, key).value) ELSE 0)
                    + get_item_size(value)]

\* The while loop with a suspension after each removal.
evict_run_suspending(M, items) ==
    LET M2 == [M EXCEPT !.cache = DictDel(M.cache, Head(items).key),
                        !.current_size = @ - get_item_size(Head(items).value)]
    IN  [M |-> M2, items |-> Tail(items),
         pc |-> IF 10 * M2.current_size > 8 * max_size /\ Tail(items) # <<>>
                THEN "evicting" ELSE "idle"]

\* The while loop of _evict_if_needed from where the caller stands in it to
\* its next suspension: its body awaits nothing, so it runs to its end.
evict_run(M, items) ==
    [M |-> evict_loop(M, items), items |-> <<>>, pc |-> "idle"]

\* One step of a caller: get and delete await nothing that suspends, and set
\* awaits only _evict_if_needed.
caller_step(M, caller, shuffle) ==
    CASE caller.pc = "evicting" -> evict_run(M, caller.items)
      [] caller.op = "get" ->
            [M |-> MemoryBackend_get(M, caller.key).W, items |-> <<>>, pc |-> "idle"]
      [] caller.op = "delete" ->
            [M |-> MemoryBackend_delete(M, caller.key).W, items |-> <<>>,
             pc |-> "idle"]
      [] caller.op = "set" ->
            LET M1 == BeforeEviction(M, caller.key, caller.value, 0)
            IN  IF get_item_size(caller.value) > max_item_size
                THEN [M |-> M, items |-> <<>>, pc |-> "idle"]
                ELSE IF M1.current_size <= max_size
                THEN [M |-> M1, items |-> <<>>, pc |-> "idle"]
                ELSE evict_run(M1, evict_order(M1, shuffle))

\* The calls of the model: writes of every key, reads and deletes of one.
Calls ==
    [op : {"set"}, key : EvictionKeys, value : {"a", "bb"}, pc : {"ready"},
     items : {<<>>}]
    \cup [op : {"get", "delete"}, key : {"tech:python"}, value : {None},
          pc : {"ready"}, items : {<<>>}]

\* A request handler calls the backend: its coroutine is ready to run.
Call(c) ==
    /\ backend = "memory" /\ initialized
    /\ callers[c].pc = "idle"
    /\ \E call \in Calls : callers' = [callers EXCEPT ![c] = call]
    /\ last' = [op |-> "call", note |-> c]
    /\ UNCHANGED <<now, settings, backend, initialized, cache, current_size,
                   redis_keys, redis_tags, collection, metrics, cluster, scheduler,
                   services>>

\* The event loop runs caller c to its next suspension or to its return.
Resume(c) ==
    /\ backend = "memory" /\ initialized
    /\ callers[c].pc # "idle"
    /\ \E shuffle \in IF cache_strategy = "random"
                      THEN Shuffles(Cardinality(DictKeys(cache) \cup {callers[c].key}))
                      ELSE {<<>>} :
          LET r == caller_step(World, callers[c], shuffle)
          IN  /\ Bounded(r.M)
              /\ cache' = r.M.cache
              /\ current_size' = r.M.current_size
              /\ callers' = [callers EXCEPT ![c] = [@ EXCEPT !.pc = r.pc,
                                                            !.items = r.items]]
              /\ last' = [op |-> callers[c].op,
                          note |-> [caller |-> c,
                                    removed |-> Cardinality(DictKeys(cache)
                                                    \ DictKeys(r.M.cache))]]
    /\ UNCHANGED <<now, settings, backend, initialized, redis_keys, redis_tags,
                   collection, metrics, cluster, scheduler,
                   services>>

\* A caller that has returned makes its next call.
Return(c) ==
    /\ callers[c].pc = "idle"
    /\ callers[c] # Idle
    /\ callers' = [callers EXCEPT ![c] = Idle]
    /\ last' = [op |-> "return", note |-> c]
    /\ UNCHANGED <<now, settings, backend, initialized, cache, current_size,
                   redis_keys, redis_tags, collection, metrics, cluster, scheduler,
                   services>>

NextCallers ==
    \/ Initialize
    \/ \E c \in Callers : Call(c)
    \/ \E c \in Callers : Resume(c)
    \/ \E c \in Callers : Return(c)

SpecCallers == Init /\ [][NextCallers]_vars

----------------------------------------------------------------------------
(* Claims about the memory backend (Spec).                                 *)

\* The shuffles the eviction pass of set(key, ...) may draw on the item map c.
ShufflesFor(c, key) ==
    IF cache_strategy = "random"
    THEN Shuffles(Cardinality(DictKeys(c) \cup {key})) ELSE {<<>>}

\* C1: under every eviction policy, between operations (so whenever a set
\* call has returned) current_size <= max_size, and the counter is the sum of
\* the sizes of the stored items.
C1_SizeWithinBudget ==
    /\ current_size <= max_size
    /\ current_size = SumSizes(cache)

\* A set has just run an eviction pass and left a non-empty cache.
C1_Witness ==
    /\ last = [op |-> "set", note |-> "evicted"]
    /\ cache # <<>>

\* C2: when set(k, v1) and then set(k, v2) both report success, the get(k)
\* that follows at once returns v2, under every eviction policy and also
\* when the second set runs an eviction pass.
C2_ReadYourWrite ==
    backend = "memory" =>
        \A key \in Keys, v1 \in Values, v2 \in Values, ttl \in {0, 1} :
            \A s1 \in ShufflesFor(cache, key) :
                LET r1 == MemoryBackend_set(World, key, v1, ttl, {}, s1)
                IN  \A s2 \in ShufflesFor(r1.W.cache, key) :
                        LET r2 == MemoryBackend_set(r1.W, key, v2, ttl, {}, s2)
                        IN  (r1.ret /\ r2.ret)
                                => MemoryBackend_get(r2.W, key).ret = v2

\* C4 (as amended): whatever is stored, every read path of the memory backend
\* shows exactly the items whose TTL has not elapsed (created_at + ttl >= now):
\* get and mget give the stored value of such an item and None for every other
\* key, exists is true exactly for such an item, keys lists exactly those.
Live(key) ==
    /\ Has(cache, key)
    /\ ~(Lookup(cache, key).created_at + Lookup(cache, key).ttl < now)

Visible(key) == IF Live(key) THEN Lookup(cache, key).value ELSE None

C4_LazyExpiry ==
    backend = "memory" =>
        /\ \A key \in Keys :
              /\ MemoryBackend_get(World, key).ret = Visible(key)
              /\ MemoryBackend_exists(World, key).ret = Live(key)
        /\ \A keys \in KeyLists :
              LET r == MemoryBackend_mget(World, keys)
              IN  /\ DOMAIN r.ret = {keys[i] : i \in DOMAIN keys}
                  /\ \A k \in DOMAIN r.ret : r.ret[k] = Visible(k)
        /\ LET r == MemoryBackend_keys(World, "*")
           IN  {r.ret[i] : i \in DOMAIN r.ret} = {k \in Keys : Live(k)}

\* A read has just met an item whose TTL had elapsed, with another item stored.
C4_Witness ==
    /\ last.op \in {"get", "exists"}
    /\ last.note = "expired"
    /\ cache # <<>>

\* C4 (as claimed): the above, and exists(k) is true exactly when get(k)
\* returns a value.
C4_ExistsIffGetReturns ==
    backend = "memory" =>
        \A key \in Keys :
            /\ ~Live(key) => MemoryBackend_get(World, key).ret = None
            /\ MemoryBackend_exists(World, key).ret
                  <=> (MemoryBackend_get(World, key).ret # None)

\* C5: delete(k) returns true iff k was stored and this call removed it; on a
\* key that is not stored it returns false and leaves the item map and
\* current_size as they were; a second delete(k) in a row returns false.
C5_Delete ==
    backend = "memory" =>
        \A key \in Keys :
            LET r == MemoryBackend_delete(World, key)
                again == MemoryBackend_delete(r.W, key)
            IN  /\ r.ret <=> (Has(cache, key) /\ ~Has(r.W.cache, key))
                /\ r.ret <=> Has(cache, key)
                /\ ~Has(cache, key) =>
                      r.W.cache = cache /\ r.W.current_size = current_size
                /\ Has(cache, key) =>
                      /\ DictKeys(r.W.cache) = DictKeys(cache) \ {key}
                      /\ r.W.current_size =
                            current_size - get_item_size(Lookup(cache, key).value)
                /\ again.ret = FALSE
                /\ again.W = r.W

\* A delete has just removed a stored key (which a second delete now misses).
C5_Witness ==
    /\ last.op = "delete"
    /\ last.note \in {"live", "expired"}
    /\ cache # <<>>

----------------------------------------------------------------------------
(* Claims about the three backends (SpecBackends).                         *)

\* The backend objects before initialize() has succeeded.
Uninitialized == [World EXCEPT !.initialized = FALSE]

\* Whether key is stored, and the tags stored with it.
Stored(W, key) ==
    CASE backend = "memory" -> Has(W.cache, key)
      [] backend = "mongo" -> MongoHas(W.collection, key)
      [] backend = "redis" -> RedisHas(W.redis_keys, key)
      [] OTHER -> FALSE

StoredTags(W, key) ==
    CASE backend = "memory" -> Lookup(W.cache, key).tags
      [] backend = "mongo" -> find_one(W.collection, key).tags
      [] backend = "redis" ->
            IF RedisHas(W.redis_tags, key)
            THEN RedisEntry(W.redis_tags, key).members ELSE {}

\* C3 (as amended): a set with ttl = t >= 1 stores the item with created_at =
\* now and ttl = t (memory) or expires_at = now + t (Mongo); and as long as the
\* item is stored, get returns its value at every now <= created_at + t and
\* absent at every now > created_at + t: the boundary instant is still live.
C3_TtlBoundaryLive ==
    /\ (backend = "memory" /\ initialized) =>
          \A key \in Keys :
              /\ Has(cache, key) =>
                    LET item == Lookup(cache, key)
                    IN  MemoryBackend_get(World, key).ret =
                            IF now <= item.created_at + item.ttl
                            THEN item.value ELSE None
              /\ LET r == MemoryBackend_set(World, key, "a", 1, {}, <<>>)
                 IN  (r.ret /\ Has(r.W.cache, key)) =>
                        /\ Lookup(r.W.cache, key).created_at = now
                        /\ Lookup(r.W.cache, key).ttl = 1
    /\ (backend = "mongo" /\ initialized) =>
          \A key \in Keys :
              /\ (MongoHas(collection, key)
                    /\ find_one(collection, key).expires_at # 0) =>
                    LET doc == find_one(collection, key)
                    IN  MongoBackend_get(World, key, 0).ret =
                            IF now <= doc.expires_at THEN doc.value ELSE None
              /\ LET r == MongoBackend_set(World, key, "a", 1, {}, 0)
                 IN  r.ret => find_one(r.W.collection, key).expires_at = now + 1

\* A get has just read an item at the very instant created_at + ttl.
C3_Witness ==
    /\ backend = "memory"
    /\ last = [op |-> "get", note |-> "live"]
    /\ \E i \in DOMAIN cache :
          /\ cache[i].created_at + cache[i].ttl = now
          /\ cache[i].accessed_at = now
          /\ cache[i].access_count = 1

\* C3 (as claimed): a stored item is returned by get at every now <
\* created_at + t and is absent at every now >= created_at + t.
C3_TtlBoundaryExpired ==
    /\ (backend = "memory" /\ initialized) =>
          \A key \in Keys :
              Has(cache, key) =>
                  LET item == Lookup(cache, key)
                  IN  MemoryBackend_get(World, key).ret =
                          IF now < item.created_at + item.ttl
                          THEN item.value ELSE None
    /\ (backend = "mongo" /\ initialized) =>
          \A key \in Keys :
              (MongoHas(collection, key)
                  /\ find_one(collection, key).expires_at # 0) =>
                  LET doc == find_one(collection, key)
                  IN  MongoBackend_get(World, key, 0).ret =
                          IF now < doc.expires_at THEN doc.value ELSE None

\* C6: mget(keys) of every backend and of the facade returns a map whose key
\* set is exactly the set of requested keys, also before initialize, with no
\* backend at all, and when the backend call fails.
C6_MgetKeySet ==
    \A keys \in KeyLists, fail \in 0..1 :
        LET requested == {keys[i] : i \in DOMAIN keys}
        IN  /\ DOMAIN CacheManager_mget(World, keys, fail).ret = requested
            /\ DOMAIN CacheManager_mget(Uninitialized, keys, fail).ret = requested
            /\ backend # "none" =>
                  /\ DOMAIN Backend_mget(World, keys, fail).ret = requested
                  /\ DOMAIN Backend_mget(Uninitialized, keys, fail).ret = requested
            /\ \A k \in requested :
                  ~Stored(World, k) =>
                      CacheManager_mget(World, keys, fail).ret[k] = None

\* An mget on Mongo has just read the one stored document (and answered absent
\* for any other requested key).
C6_Witness ==
    /\ last.op = "mget"
    /\ backend = "mongo"
    /\ \E d \in collection : collection = {d} /\ d.access_count = 1

\* C7: after a successful set(k, v, tags) the tags stored with k are exactly
\* the tags of that call, on every backend.
C7_SetReplacesTags ==
    (backend # "none" /\ initialized) =>
        \A key \in Keys, ttl \in {0, 1}, tags \in TagLists :
            LET r == Backend_set(World, key, "a", ttl, tags, <<>>, 0)
            IN  (r.ret /\ Stored(r.W, key)) => StoredTags(r.W, key) = tags

\* C8: after invalidate_by_tags(tags), on every backend, no item stored with
\* one of the tags is readable and every item stored with none of them reads
\* as before.
C8_InvalidateByTags ==
    (backend # "none" /\ initialized) =>
        \A tags \in {{"lang"}, {"python"}} :
            LET r == CacheManager_invalidate_by_tags(World, tags, 0)
            IN  \A key \in Keys :
                    Stored(World, key) =>
                        Backend_get(r.W, key, 0).ret =
                            IF StoredTags(World, key) \cap tags # {}
                            THEN None ELSE Backend_get(World, key, 0).ret

----------------------------------------------------------------------------
(* Claims about the facade (SpecFacade).                                   *)

\* One call of get_with_fallback from the present state, and the get it
\* starts with.
Fallback(key, outcome, ttl, tags) ==
    CacheManager_get_with_fallback(World, metrics, key, outcome, ttl, tags, <<>>, 0)

FirstGet(key) == CacheManager_get(World, metrics, key, 0)

\* The number of self.set calls a facade call r has made.
SetCalls(r) == r.m.operations.set - metrics.operations.set

C10_FailurePropagates ==
    backend \in {"memory", "none"} =>
        \A key \in Keys, ttl \in {0, 1}, tags \in TagLists :
            LET g == FirstGet(key)
                r == Fallback(key, Raise, ttl, tags)
            IN  /\ r.raised <=> g.ret = None
                /\ r.raised =>
                      /\ r.calls = 1
                      /\ SetCalls(r) = 0
                      /\ r.stored = "no set"
                      /\ r.W = g.W
                      /\ DictKeys(r.W.cache) \subseteq DictKeys(cache)
                      /\ Has(r.W.cache, key) =>
                            /\ Has(cache, key)
                            /\ Lookup(r.W.cache, key).value = Lookup(cache, key).value
                            /\ Lookup(r.W.cache, key).created_at =
                                  Lookup(cache, key).created_at
                            /\ Lookup(r.W.cache, key).ttl = Lookup(cache, key).ttl
                            /\ Lookup(r.W.cache, key).tags = Lookup(cache, key).tags
                      /\ MemoryBackend_get(r.W, key).ret =
                            MemoryBackend_get(World, key).ret

\* computeFn has just failed on a miss while the cache held an item.
C10_Witness ==
    /\ last.op = "get_with_fallback"
    /\ last.note.raised
    /\ last.note.calls = 1
    /\ last.note.sets = 0
    /\ cache # <<>>

\* C12: a set of the memory backend whose item is larger than max_item_size
\* returns False and leaves the item map (so also a value stored under the
\* same key, and every other item: nothing is evicted) and current_size as
\* they were.
C12_TooLargeRefused ==
    (backend = "memory" /\ initialized) =>
        \A key \in Keys, value \in Values, ttl \in {0, 1}, tags \in TagLists :
            \A shuffle \in ShufflesFor(cache, key) :
                get_item_size(value) > max_item_size
                    => MemoryBackend_set(World, key, value, ttl, tags, shuffle)
                          = [W |-> World, ret |-> FALSE]

\* A too large set has just been refused on a full cache that holds a value
\* under the key of the set.
C12_Witness ==
    /\ last = [op |-> "set", note |-> "refused"]
    /\ current_size = max_size
    /\ Len(cache) = 2

\* The batches of mset: the dict entries in their order.
Batches ==
    {<<>>} \cup {<<[key |-> k, value |-> v]>> : k \in Keys, v \in Values}
           \cup {<<[key |-> "tech:python", value |-> v],
                   [key |-> "temp:job", value |-> w]>> : v, w \in Values}

\* C13: mset of the memory backend answers True exactly when every set of
\* the batch answered True, and afterwards every entry whose set answered
\* True is stored with its value.  Stated for the batches that fit by
\* themselves in the budget (their sizes add up to at most max_size), so that
\* no eviction policy has to give up an entry of the batch for another one.
C13_MsetBestEffort ==
    (backend = "memory" /\ initialized /\ cache_strategy # "random") =>
        \A items \in Batches :
            LET r == MemoryBackend_mset(World, items, 0, <<>>,
                                        [i \in DOMAIN items |-> <<>>])
                written(i) == get_item_size(items[i].value) <= max_item_size
                kept == SelectSeq(items, LAMBDA e :
                                     get_item_size(e.value) <= max_item_size)
            IN  /\ r.ret = (\A i \in DOMAIN items : written(i))
                /\ SumSizes(kept) <= max_size =>
                      \A i \in DOMAIN items :
                          written(i) =>
                              /\ Has(r.W.cache, items[i].key)
                              /\ Lookup(r.W.cache, items[i].key).value
                                     = items[i].value

----------------------------------------------------------------------------
(* Claims about the error handling of the facade (SpecFacade).             *)

\* C11: when the backend call raises (here: no backend yet), get, set, delete,
\* exists, mget, mset, invalidate_by_tags, keys, clear and get_stats raise
\* nothing and answer their safe default (None for the reads, False for the
\* writes, [] and 0 for keys, clear and invalidate_by_tags, an error dict for
\* get_stats); the stored data is left alone and get, set and delete count
\* one error.
C11_SafeDefaults ==
    backend = "none" =>
        /\ \A key \in Keys :
              /\ CacheManager_get(World, metrics, key, 0).ret = None
              /\ CacheManager_get(World, metrics, key, 0).W = World
              /\ CacheManager_get(World, metrics, key, 0).m.errors.get
                     = metrics.errors.get + 1
              /\ CacheManager_delete(World, metrics, key, 0).ret = FALSE
              /\ CacheManager_delete(World, metrics, key, 0).W = World
              /\ CacheManager_delete(World, metrics, key, 0).m.errors.delete
                     = metrics.errors.delete + 1
              /\ CacheManager_exists(World, key, 0)
                     = [W |-> World, ret |-> FALSE, raised |-> FALSE]
              /\ \A value \in Values :
                    /\ CacheManager_set(World, metrics, key, value, 1, {}, <<>>, 0).ret
                           = FALSE
                    /\ CacheManager_set(World, metrics, key, value, 1, {}, <<>>, 0).W
                           = World
                    /\ CacheManager_set(World, metrics, key, value, 1, {}, <<>>, 0)
                           .m.errors.set = metrics.errors.set + 1
        /\ \A keys \in KeyLists :
              CacheManager_mget(World, keys, 0)
                 = [W |-> World, ret |-> [k \in {keys[i] : i \in DOMAIN keys} |-> None]]
        /\ \A items \in Batches :
              CacheManager_mset(World, items, 1, <<>>, [i \in DOMAIN items |-> <<>>])
                 = [W |-> World, ret |-> FALSE, raised |-> FALSE]
        /\ \A tags \in TagLists :
              CacheManager_invalidate_by_tags(World, tags, 0) = [W |-> World, ret |-> 0]
        /\ \A pattern \in Patterns :
              /\ CacheManager_keys(World, pattern)
                     = [W |-> World, ret |-> <<>>, raised |-> FALSE]
              /\ CacheManager_clear(World, pattern)
                     = [W |-> World, ret |-> 0, raised |-> FALSE]
        /\ CacheManager_get_stats(World, metrics).W = World
        /\ CacheManager_get_stats(World, metrics).m = metrics
        /\ ~CacheManager_get_stats(World, metrics).raised
        /\ "error" \in DOMAIN CacheManager_get_stats(World, metrics).ret

\* A get on a manager that has no backend yet answered None and counted
\* its error.
C11_Witness ==
    /\ backend = "none"
    /\ last = [op |-> "get", note |-> None]
    /\ metrics.errors.get = 1
    /\ metrics.operations.get = 1

----------------------------------------------------------------------------
(* Claims about the hash ring and the membership (SpecCluster).            *)

\* The nodes of the table whose status is online.
OnlineIds(ns) == {ns[i].id : i \in {j \in DOMAIN ns : ns[j].status = "online"}}

C15_RingOfOnlineNodes ==
    running =>
        /\ \A p \in DOMAIN consistent_hash_ring :
              consistent_hash_ring[p] \in OnlineIds(nodes)
        /\ \A id \in OnlineIds(nodes), i \in 0..(virtual_nodes - 1) :
              hash_key(id \o "#" \o ToString(i)) \in DOMAIN consistent_hash_ring

\* C16: with an empty ring get_node_for_key finds no owner, route_request
\* gives no target and set_cache takes the local node as primary, the replica
\* list is empty and replicate_data pushes nothing and returns True.
C16_EmptyRing ==
    (running /\ DOMAIN consistent_hash_ring = {}) =>
        \A key \in Keys :
            /\ get_node_for_key(consistent_hash_ring, key) = None
            /\ route_request(nodes, consistent_hash_ring, key) = None
            /\ \A n \in 1..3 : get_replica_nodes(consistent_hash_ring, key, n) = <<>>
            /\ \A up \in SUBSET Peers :
                  /\ replicate_data(nodes, consistent_hash_ring, remote, key, "a",
                                    0, up)
                        = [remote |-> remote, ret |-> TRUE, tasks |-> <<>>]
                  /\ set_cache(World, metrics, nodes, consistent_hash_ring, remote,
                               key, "a", 0, {}, <<>>, up).status = 200
                  /\ set_cache(World, metrics, nodes, consistent_hash_ring, remote,
                               key, "a", 0, {}, <<>>, up).primary_node = node_id

\* The local node has left while no peer was online: the ring is empty and
\* peers are still in the table.
C16_Witness ==
    /\ running
    /\ last = [op |-> "leave", note |-> 200]
    /\ DOMAIN consistent_hash_ring = {}
    /\ nodes # <<>>

\* C17: on a ring that is the ring of the node table, _get_replica_nodes(key, n)
\* lists distinct nodes, the owner first, and exactly n of them whenever at
\* least n nodes are online.
C17_ReplicaNodes ==
    (running /\ consistent_hash_ring = build_hash_ring(nodes)
             /\ DOMAIN consistent_hash_ring # {}) =>
        \A key \in Keys, n \in 1..3 :
            LET r == get_replica_nodes(consistent_hash_ring, key, n)
            IN  /\ \A i, j \in DOMAIN r : i # j => r[i] # r[j]
                /\ r # <<>> /\ r[1] = get_node_for_key(consistent_hash_ring, key)
                /\ Cardinality(OnlineIds(nodes)) >= n => Len(r) = n

\* C20: whatever the probes answer, after a turn of the health-check loop
\* every other node whose probe answered 200 is online with last_seen, load
\* and version as of the probe, every other node is offline, and the ring is
\* the ring of the resulting table.
C20_HealthPass ==
    running =>
        \A answers \in AnswerMaps, load \in Loads :
            LET r == health_check_pass(nodes, answers, load)
            IN  /\ r.ring = build_hash_ring(r.nodes)
                /\ \A i \in DOMAIN r.nodes :
                      r.nodes[i].id # node_id =>
                          IF answers[r.nodes[i].id].status = 200
                          THEN /\ r.nodes[i].status = "online"
                               /\ r.nodes[i].last_seen = now
                               /\ r.nodes[i].version = answers[r.nodes[i].id].version
                               /\ r.nodes[i].load = answers[r.nodes[i].id].cpu_percent
                          ELSE r.nodes[i].status = "offline"

----------------------------------------------------------------------------
(* Claims about replication (SpecReplication).                             *)

\* C18: with a peer offline or not answering, a PUT whose local write
\* succeeds is answered with success, and afterwards the value is held by the
\* owner of the key (the local cache when the local node owns it, the store of
\* the peer otherwise) or by an online replica.
C18_PutSurvivesReplicaLoss ==
    (running /\ backend = "memory" /\ initialized) =>
        \A key \in Keys, up \in SUBSET Peers :
            LET r == set_cache(World, metrics, nodes, consistent_hash_ring, remote,
                               key, "a", 0, {}, <<>>, up)
                owner == get_node_for_key(consistent_hash_ring, key)
                holders == (IF MemoryBackend_get(r.W, key).ret = "a"
                            THEN {node_id} ELSE {})
                              \cup {d.node : d \in {e \in r.remote :
                                        e.key = key /\ e.value = "a"}}
                replicas == get_replica_nodes(consistent_hash_ring, key, 2)
            IN  (\E p \in Peers : p \notin up \/ p \notin OnlineIds(nodes)) =>
                    /\ r.status = 200
                    /\ r.success
                    /\ \E h \in holders :
                          h = owner \/ owner = None
                             \/ \E i \in DOMAIN replicas : replicas[i] = h

\* C19: replicate_cache writes to the cache only for a request that carries
\* the expected secret; any other request is refused and changes nothing.
C19_ReplicateNeedsCredential ==
    (running /\ backend = "memory" /\ initialized) =>
        \A secret \in Secrets, key \in Keys, value \in {"a", "bb"} :
            LET r == replicate_cache(World, metrics, secret, key, value, 0, <<>>)
            IN  secret # expected_secret =>
                    /\ r.status # 200
                    /\ r.W = World
                    /\ r.m = metrics

----------------------------------------------------------------------------
(* Claims about the eviction pass (SpecEviction).                          *)

\* The field the eviction policy sorts on.
policy_field ==
    CASE cache_strategy = "lru" -> "accessed_at"
      [] cache_strategy = "lfu" -> "access_count"
      [] cache_strategy = "fifo" -> "created_at"

\* C26: in the eviction pass of every set, under LRU, LFU and FIFO, an evicted
\* item x and a kept item y have field(x) <= field(y), the field being
\* accessed_at, access_count and created_at.
C26_EvictsLeastFirst ==
    (backend = "memory" /\ initialized /\ cache_strategy # "random") =>
        \A key \in EvictionKeys, value \in {"a", "bb"} : \A ttl \in EvictionTTLs(key) :
            LET M1 == BeforeEviction(World, key, value, ttl)
                E == evict_if_needed(M1, <<>>)
            IN  \A i \in DOMAIN M1.cache, j \in DOMAIN E.cache :
                    ~Has(E.cache, M1.cache[i].key)
                        => M1.cache[i][policy_field] <= E.cache[j][policy_field]

\* A set at time 1 has evicted under LRU and kept two items, one of which was
\* last accessed at time 0 and one at time 1.
C26_Witness ==
    /\ last = [op |-> "set", note |-> "evicted"]
    /\ cache_strategy = "lru"
    /\ now = 1
    /\ Len(cache) = 2
    /\ \E i, j \in DOMAIN cache : cache[i].accessed_at = 0 /\ cache[j].accessed_at = 1

\* C27: in the eviction pass of every set, under every policy, when an item
\* that has not expired is evicted no expired item is left in the cache.
C27_ExpiredEvictedFirst ==
    (backend = "memory" /\ initialized) =>
        \A key \in EvictionKeys, value \in {"a", "bb"} : \A ttl \in EvictionTTLs(key) :
            LET M1 == BeforeEviction(World, key, value, ttl)
            IN  \A shuffle \in IF cache_strategy = "random"
                               THEN Shuffles(Len(M1.cache)) ELSE {<<>>} :
                    LET E == evict_if_needed(M1, shuffle)
                    IN  (\E i \in DOMAIN M1.cache :
                            /\ ~Has(E.cache, M1.cache[i].key)
                            /\ ~is_expired(M1.cache[i], now))
                        => \A j \in DOMAIN E.cache : ~is_expired(E.cache[j], now)

\* C28: the eviction pass of every set removes nothing unless current_size >
\* max_size at its start, and then it ends with current_size <= 0.8 * max_size
\* or with an empty cache.
C28_EvictionTarget ==
    (backend = "memory" /\ initialized) =>
        \A key \in EvictionKeys, value \in {"a", "bb"} : \A ttl \in EvictionTTLs(key) :
            LET M1 == BeforeEviction(World, key, value, ttl)
            IN  \A shuffle \in IF cache_strategy = "random"
                               THEN Shuffles(Len(M1.cache)) ELSE {<<>>} :
                    LET E == evict_if_needed(M1, shuffle)
                    IN  /\ M1.current_size <= max_size => E = M1
                        /\ M1.current_size > max_size =>
                              \/ 10 * E.current_size <= 8 * max_size
                              \/ E.cache = <<>>

\* A set has found three items of four units in the cache and its eviction
\* pass has taken two of them to come under the target: one item of two units
\* is left.
C28_Witness ==
    /\ last = [op |-> "set", note |-> "evicted"]
    /\ Len(cache) = 1
    /\ current_size = 2
    /\ cache[1].key = "lock:x"
    /\ cache[1].created_at > 0

----------------------------------------------------------------------------
(* Claims about cluster membership (SpecCluster).                          *)

\* C21: every step changes the status of a node only along unknown ->
\* joining -> online <-> offline, and removes a node from the table only when
\* its status is leaving.
C21_StatusLifecycle ==
    [][\A id \in NodeIds(nodes) :
          IF id \in NodeIds(nodes')
          THEN \/ NodeGet(nodes', id).status = NodeGet(nodes, id).status
               \/ <<NodeGet(nodes, id).status, NodeGet(nodes', id).status>> \in
                      {<<"unknown", "joining">>, <<"joining", "online">>,
                       <<"online", "offline">>, <<"offline", "online">>}
          ELSE NodeGet(nodes, id).status = "leaving"]_vars

\* C22: join_cluster for an id of the table is refused with the table and the
\* ring unchanged; for a new id it adds exactly that node, with status joining
\* and no point in the ring; the table never holds two nodes of one id.
C22_JoinAddsJoiningNode ==
    running =>
        /\ \A i, j \in DOMAIN nodes : nodes[i].id = nodes[j].id => i = j
        /\ \A id \in NodeIds(initialize_nodes) :
              LET r == join_cluster(nodes, consistent_hash_ring, id)
              IN  IF id \in NodeIds(nodes)
                  THEN r = [nodes |-> nodes, ring |-> consistent_hash_ring,
                            status |-> 400]
                  ELSE /\ NodeIds(r.nodes) = NodeIds(nodes) \cup {id}
                       /\ NodeGet(r.nodes, id).status = "joining"
                       /\ \A q \in NodeIds(nodes) :
                              NodeGet(r.nodes, q) = NodeGet(nodes, q)
                       /\ \A h \in DOMAIN r.ring : r.ring[h] # id

\* C23 as stated: in every state after initialize() the node table holds the
\* local node id with status online.
C23_LocalNodeOnline ==
    running =>
        /\ node_id \in NodeIds(nodes)
        /\ NodeGet(nodes, node_id).status = "online"

\* C23: initialize() leaves the local node in the table with status online,
\* and every later step keeps it there with status online, except a
\* leave_cluster for the local node id, which removes it.
C23_LocalNodeOnlineUntilItLeaves ==
    [][(running' /\ (running => C23_LocalNodeOnline))
          => \/ /\ node_id \in NodeIds(nodes')
                /\ NodeGet(nodes', node_id).status = "online"
             \/ /\ running
                /\ last'.op = "leave"
                /\ last'.note = 200
                /\ nodes' = NodeDel(nodes, node_id)]_vars

\* A health pass has found both peers offline and the local node is still in
\* the table, online and seen at the time of the pass.
C23_Witness ==
    /\ running
    /\ last.op = "health_check"
    /\ now > 0
    /\ Len(nodes) = 3
    /\ OnlineIds(nodes) = {node_id}
    /\ NodeGet(nodes, node_id).last_seen = now

----------------------------------------------------------------------------
(* Claims about the background loops (SpecLoops, FairLoops).               *)

\* C24: once stop() or shutdown() has cancelled its loop, the task takes no
\* step but the one that ends it, whether it was in the sleep of its interval,
\* inside a cycle or in the 60-second backoff: no further cycle or pass
\* starts and nothing is counted; the task ends, and stop() and shutdown()
\* return.
C24_StopEndsLoop ==
    /\ [][/\ scheduler.task.cancel =>
                /\ scheduler'.task.pc \in {scheduler.task.pc, "finished", "cancelled"}
                /\ scheduler'.stats = scheduler.stats
          /\ health_check_task.cancel =>
                /\ health_check_task'.pc \in
                       {health_check_task.pc, "finished", "cancelled"}
                /\ nodes' = nodes]_vars
    /\ [](scheduler.task.cancel =>
            <>(TaskDone(scheduler.task) /\ scheduler.task.waiter = "returned"))
    /\ [](health_check_task.cancel =>
            <>(TaskDone(health_check_task) /\ health_check_task.waiter = "returned"))

\* stop() has returned with the cleanup task cancelled in its backoff after
\* an error, and shutdown() has returned with the health-check task having
\* broken out of its loop.
C24_Witness ==
    /\ scheduler.stats.errors > 0
    /\ scheduler.task = [pc |-> "cancelled", cancel |-> TRUE, waiter |-> "returned"]
    /\ health_check_task = [pc |-> "finished", cancel |-> TRUE, waiter |-> "returned"]

\* C25: an error of a cleanup cycle does not end the loop: stats["errors"] is
\* counted for an error of a cycle and the loop goes to its 60-second
\* backoff, and from the backoff a later cycle starts unless the scheduler is
\* stopped.
C25_ErrorDoesNotEndLoop ==
    /\ [][scheduler'.stats.errors > scheduler.stats.errors =>
              /\ scheduler.task.pc = "cycle"
              /\ scheduler'.task.pc = "backoff"]_vars
    /\ [](scheduler.task.pc = "backoff" =>
            <>(scheduler.task.pc = "cycle" \/ ~scheduler.running))

----------------------------------------------------------------------------
(* Claims about the ring under interleaved handlers (SpecRouting).         *)

\* C29: whatever health passes, joins, leaves and rebalances have run or are
\* under way, the ring a lookup reads is complete: for some set of nodes it
\* holds every point of each of them and no other point, never a part of a
\* rebuild.
C29_LookupReadsCompleteRing ==
    running =>
        \E S \in SUBSET NodeIds(initialize_nodes) :
            /\ DOMAIN consistent_hash_ring =
                   {hash_key(id \o "#" \o ToString(i)) :
                        id \in S, i \in 0..(virtual_nodes - 1)}
            /\ \A p \in DOMAIN consistent_hash_ring :
                  /\ consistent_hash_ring[p] \in S
                  /\ \E i \in 0..(virtual_nodes - 1) :
                        hash_key(consistent_hash_ring[p] \o "#" \o ToString(i)) = p

\* A lookup has found an owner while a health pass was awaiting its probes
\* and after a node had left, the ring having been rebuilt by the leave.
C29_Witness ==
    /\ last.op = "route"
    /\ last.note.owner # None
    /\ health_check_task.pc = "cycle"
    /\ Len(nodes) = 2

----------------------------------------------------------------------------
(* Claims about concurrent callers of the memory backend (SpecCallers).    *)

\* C30: every call a caller makes of one MemoryBackend is done in the one step
\* in which its coroutine runs: a set with its whole eviction pass, a get, a
\* delete.  The caller has returned after the step, so no step of another
\* caller falls within a set, a delete or an eviction pass, and no two
\* eviction passes overlap.
C30_CallsAreExclusive ==
    [][\A c \in Callers :
          (callers[c].pc # "idle" /\ callers'[c] # callers[c]) =>
              /\ callers'[c].pc = "idle"
              /\ \A d \in Callers \ {c} : callers'[d] = callers[d]
              /\ \E shuffle \in ShufflesFor(cache, callers[c].key) :
                    World' =
                        CASE callers[c].op = "set" ->
                                MemoryBackend_set(World, callers[c].key, callers[c].value,
                                                  0, {}, shuffle).W
                          [] callers[c].op = "get" ->
                                MemoryBackend_get(World, callers[c].key).W
                          [] callers[c].op = "delete" ->
                                MemoryBackend_delete(World, callers[c].key).W]_vars

\* A set has run its eviction pass, taking two items, while the set of the
\* other caller was ready to run.
C30_Witness ==
    /\ last.op = "set"
    /\ last.note.removed = 2
    /\ \E c \in Callers :
          /\ c # last.note.caller
          /\ callers[c].pc = "ready"
          /\ callers[c].op = "set"

----------------------------------------------------------------------------
(* Claims about collisions on the ring (SpecCluster).                      *)

\* C40: when virtual points of two online nodes hash to the same ring value,
\* the ring _build_hash_ring builds keeps at that value the node whose point
\* was put first, the first such node of the table.
C40_FirstWriteWins ==
    running =>
        LET ring == build_hash_ring(nodes)
            owners(p) == {i \in DOMAIN nodes :
                             /\ nodes[i].status = "online"
                             /\ \E v \in 0..(virtual_nodes - 1) :
                                   hash_key(nodes[i].id \o "#" \o ToString(v)) = p}
        IN  \A p \in DOMAIN ring :
                \A i \in owners(p) :
                    (\A j \in owners(p) : i <= j) => ring[p] = nodes[i].id

----------------------------------------------------------------------------
(* Claims about the size counter of the memory backend (SpecAccounting).   *)

\* MemoryBackend.get_stats, which first deletes the expired items.
GetStats ==
    /\ backend = "memory"
    /\ Step(MemoryBackend_get_stats(World).W, "get_stats",
            MemoryBackend_get_stats(World).ret.expired_cleared)

\* Every method of the memory backend that touches current_size.
NextAccounting ==
    \/ Tick
    \/ Initialize
    \/ \E key \in Keys, value \in {"a", "bb"}, ttl \in {0, 1} : Set(key, value, ttl, {})
    \/ \E key \in Keys : Get(key)
    \/ \E key \in Keys : Exists(key)
    \/ \E key \in Keys : Delete(key)
    \/ \E pattern \in Patterns : Clear(pattern)
    \/ GetStats

SpecAccounting == Init /\ [][NextAccounting]_vars

\* C35: between the operations of the memory backend (set, also over a stored
\* key and with its eviction pass, get and exists, also of an expired key,
\* delete, clear and the purge of get_stats) current_size is the sum of the
\* sizes of the stored items and is not negative.
C35_SizeIsSumOfItems ==
    /\ current_size >= 0
    /\ current_size = SumSizes(cache)
    /\ (backend = "memory" /\ initialized) =>
          LET after == MemoryBackend_get_stats(World).W
          IN  after.current_size >= 0 /\ after.current_size = SumSizes(after.cache)

\* The purge of get_stats has deleted an expired item and left a live one.
C35_Witness ==
    /\ last.op = "get_stats"
    /\ last.note = 1
    /\ Len(cache) = 1
    /\ current_size > 0

----------------------------------------------------------------------------
(* Claims about the metrics of the facade (SpecFacade, SpecGets).          *)

\* C33: in every state of the CacheManager each timing list (get, set,
\* delete) holds at most the samples of the window, whether or not get_stats
\* has been called.
C33_TimingsWithinWindow ==
    \A op \in {"get", "set", "delete"} : metrics.timings[op] <= timings_window

----------------------------------------------------------------------------
(* The cleanup cycle of the CleanupScheduler over the memory backend       *)
(* (_perform_cleanup and its four steps).  The memory backend suspends     *)
(* nowhere, so a cycle is one step of the task.                            *)

\* patterns_to_clean of _cleanup_old_data
patterns_to_clean == <<"temp:*", "session:*", "lock:*", "rate_limit:*">>

Ephemeral(key) == \E i \in DOMAIN patterns_to_clean : fnmatch(key, patterns_to_clean[i])

\* _cleanup_expired: keys() drops the expired items through exists(), so the
\* exists() of the loop finds every listed key.
cleanup_expired(W) ==
    IF backend = "memory" THEN CacheManager_keys(W, "*").W ELSE W

\* _cleanup_by_size: the test of the backend reads settings and CacheBackend;
\* get_stats purges the expired items, and a usage above 90% is only logged.
cleanup_by_size(W, m) ==
    IF ~({"settings", "CacheBackend"} \subseteq cleanup_scheduler_globals)
    THEN [W |-> W, m |-> m, raised |-> "NameError", warned |-> FALSE]
    ELSE IF backend # "memory"
         THEN [W |-> W, m |-> m, raised |-> None, warned |-> FALSE]
         ELSE LET g == CacheManager_get_stats(W, m)
              IN  [W |-> g.W, m |-> g.m, raised |-> None,
                   warned |-> /\ "backend" \in DOMAIN g.ret
                              /\ "current_size" \in DOMAIN g.ret.backend
                              /\ g.ret.backend.current_size * 100 > 90 * max_size]

\* _cleanup_old_data: clear() of every pattern in turn.  CacheManager.clear
\* catches what the backend raises and returns 0, so the loop always goes on
\* to the next pattern.
RECURSIVE cleanup_old_data(_, _)
cleanup_old_data(W, patterns) ==
    IF patterns = <<>> THEN W
    ELSE cleanup_old_data(CacheManager_clear(W, Head(patterns)).W, Tail(patterns))

\* _perform_cleanup: its first statement reads settings and CacheBackend, and
\* whatever its body raises is caught and counted by the caller as a cycle
\* that was not performed (ok).
perform_cleanup(W, m) ==
    IF ~({"settings", "CacheBackend"} \subseteq cleanup_scheduler_globals)
    THEN [W |-> W, m |-> m, ok |-> FALSE]
    ELSE LET W1 == cleanup_expired(W)
             s2 == cleanup_by_size(W1, m)
             W3 == cleanup_old_data(s2.W, patterns_to_clean)
             s4 == CacheManager_get_stats(W3, s2.m)
         IN  [W |-> s4.W, m |-> s4.m, ok |-> TRUE]

\* A step of the task of _cleanup_loop with what its cycle does to the cache.
CleanupCycle ==
    /\ Suspended(scheduler.task)
    /\ \E p \in {perform_cleanup(World, metrics)} :
       LET cycle == scheduler.task.pc = "cycle" /\ ~scheduler.task.cancel
           s == cleanup_loop(scheduler, p.ok)
       IN  /\ s.stats.errors <= MaxErrors
           /\ scheduler' = s
           /\ cache' = IF cycle THEN p.W.cache ELSE cache
           /\ current_size' = IF cycle THEN p.W.current_size ELSE current_size
           /\ metrics' = IF cycle THEN p.m ELSE metrics
           /\ last' = [op |-> "cleanup_loop", note |-> s.task.pc]
    /\ UNCHANGED <<now, settings, backend, initialized, redis_keys, redis_tags,
                   collection, cluster, callers,
                   services>>

\* The memory backend written to while the scheduler runs.
NextCleanup ==
    \/ Tick
    \/ Initialize
    \/ \E key \in EvictionKeys : \E ttl \in EvictionTTLs(key) : Set(key, "a", ttl, {})
    \/ SchedulerStart
    \/ CleanupCycle
    \/ SchedulerStop
    \/ SchedulerStopReturns

SpecCleanup == Init /\ [][NextCleanup]_vars

----------------------------------------------------------------------------
(* Claims about the cleanup cycle (SpecCleanup).                           *)

\* C31: after every cleanup cycle the loop has counted, the backend holds no
\* key matching temp:*, session:*, lock:* or rate_limit:*, whatever the TTL
\* of those keys.
C31_CycleClearsPatterns ==
    [][scheduler'.stats # scheduler.stats =>
          \A i \in DOMAIN cache' : ~Ephemeral(cache'[i].key)]_vars

\* C32: when a cleanup cycle on the memory backend finds the usage above 90%
\* of max_size, the usage is lower after the cycle than before it.
C32_HighUsageEvicted ==
    (/\ backend = "memory" /\ initialized
     /\ MemoryBackend_get_stats(World).ret.current_size * 100 > 90 * max_size)
        => perform_cleanup(World, metrics).W.current_size < current_size

----------------------------------------------------------------------------
(* Concurrent calls of CacheManager.get over the Redis backend.  The get   *)
(* of the facade counts the call, awaits the backend, and counts the hit   *)
(* or the miss when the backend has answered; RedisBackend.get suspends at *)
(* its client call, and other coroutines run in between.                   *)

\* CacheManager.get whose second part counts neither a hit nor a miss.
get_end_uncounted(W, m, key, fail) ==
    LET r == Backend_get(W, key, fail)
    IN  [W |-> r.W, m |-> [m EXCEPT !.timings.get = @ + 1], ret |-> r.ret]

\* CacheManager.get up to the first suspension: the call is counted; a
\* backend of None raises and the error is counted; the memory backend, the
\* Mongo backend and a Redis backend that is not initialized answer without
\* suspending.
get_begin(W, m, key) ==
    LET m1 == [m EXCEPT !.operations.get = @ + 1]
    IN  IF backend = "redis" /\ W.initialized
        THEN [W |-> W, m |-> m1, ret |-> None, pc |-> "awaiting"]
        ELSE LET r == CacheManager_get(W, m, key, 0)
             IN  [W |-> r.W, m |-> r.m, ret |-> r.ret, pc |-> "idle"]

\* CacheManager.get from the answer of the backend on.
get_end(W, m, key, fail) ==
    LET r == Backend_get(W, key, fail)
        m2 == [m EXCEPT !.timings.get = @ + 1]
    IN  IF r.ret # None
        THEN [W |-> r.W, m |-> [m2 EXCEPT !.operations.hit = @ + 1], ret |-> r.ret]
        ELSE [W |-> r.W, m |-> [m2 EXCEPT !.operations.miss = @ + 1], ret |-> r.ret]

GetStep(r, cs, op, note) ==
    /\ Counted(r.m)
    /\ metrics' = r.m
    /\ callers' = cs
    /\ last' = [op |-> op, note |-> note]
    /\ UNCHANGED <<now, settings, backend, initialized, cache, current_size,
                   redis_keys, redis_tags, collection, cluster, scheduler,
                   services>>

\* A coroutine calls cache_manager.get(key) and runs to its first suspension.
GetCall(c, key) ==
    /\ callers[c].pc = "idle"
    /\ LET r == get_begin(World, metrics, key)
       IN  GetStep(r, [callers EXCEPT ![c] = [Idle EXCEPT !.op = "get", !.key = key,
                                                         !.pc = r.pc]],
                   IF r.pc = "idle" THEN "get" ELSE "get_call", r.ret)

\* The Redis client answers (or raises) and the coroutine runs to its return.
GetReply(c) ==
    /\ callers[c].op = "get"
    /\ callers[c].pc = "awaiting"
    /\ \E fail \in Fails(1) :
          LET r == get_end(World, metrics, callers[c].key, fail)
          IN  GetStep(r, [callers EXCEPT ![c] = Idle], "get", r.ret)

InitGets ==
    /\ Constructed
    /\ cache_strategy = "lru"
    /\ cache_backend = "redis"
    /\ enable_clustering = FALSE

NextGets ==
    \/ Tick
    \/ Initialize
    \/ \E key \in Keys, value \in {"a", None} : FacadeSet(key, value, 1, {})
    \/ \E c \in Callers, key \in Keys : GetCall(c, key)
    \/ \E c \in Callers : GetReply(c)

SpecGets == InitGets /\ [][NextGets]_vars

InFlight == {c \in Callers : callers[c].op = "get" /\ callers[c].pc = "awaiting"}

\* C36 as stated: after every completed get of the facade,
\* operations.get = operations.hit + operations.miss + errors.get, whatever
\* other gets are under way.
C36_GetCountersAddUp ==
    [][last'.op = "get" =>
          metrics'.operations.get =
              metrics'.operations.hit + metrics'.operations.miss + metrics'.errors.get]_vars

\* C36: operations.get is operations.hit + operations.miss + errors.get plus
\* the number of gets under way, so the equation of the three counters holds
\* whenever no get is under way; a completed get that returns a value counts
\* exactly one hit, and one that returns None exactly one miss, or exactly
\* one error when the backend call raised.
C36_GetsAccounted ==
    /\ [](metrics.operations.get =
             metrics.operations.hit + metrics.operations.miss + metrics.errors.get
                 + Cardinality(InFlight))
    /\ [][last'.op = "get" =>
            LET hit == metrics'.operations.hit - metrics.operations.hit
                miss == metrics'.operations.miss - metrics.operations.miss
                err == metrics'.errors.get - metrics.errors.get
            IN  IF last'.note # None
                THEN hit = 1 /\ miss = 0 /\ err = 0
                ELSE \/ hit = 0 /\ miss = 1 /\ err = 0
                     \/ hit = 0 /\ miss = 0 /\ err = 1 /\ backend = "none"]_vars

\* A get has returned a value and counted its hit while another get is
\* still waiting for Redis.
C36_Witness ==
    /\ last.op = "get"
    /\ last.note = "a"
    /\ InFlight # {}
    /\ metrics.operations.get = 2
    /\ metrics.operations.hit = 1

----------------------------------------------------------------------------
(* Claims about a write at a node that does not own the key                *)
(* (SpecReplication).                                                      *)

\* C37: after a PUT of a key is answered with success at a node that is not
\* its owner, the owner being online and answering, the owner holds the
\* value; and a push of _replicate_to_node to a peer that answers is accepted
\* by the replicate endpoint of the peer.
C37_OwnerHoldsPushedValue ==
    (running /\ backend = "memory" /\ initialized) =>
        \A key \in Keys :
            LET owner == get_node_for_key(consistent_hash_ring, key)
                r == set_cache(World, metrics, nodes, consistent_hash_ring, remote,
                               key, "a", 0, {}, <<>>, Peers)
            IN  (owner \in OnlineIds(nodes) \ {node_id}) =>
                    /\ (r.status = 200 /\ r.success) =>
                           [node |-> owner, key |-> key, value |-> "a"] \in r.remote
                    /\ replicate_to_node(remote, NodeGet(nodes, owner), key, "a", 0,
                                         Peers).ret

----------------------------------------------------------------------------
(* POST /cache/mget on a clustered node (SpecReplication).                 *)

\* What a peer can answer to the POST of _fetch_from_node: 200 with an entry
\* for every key, 200 with a "results" that lacks the keys, or an error (a
\* status other than 200, or no answer).
FetchAnswers == {"ok", "partial", "error"}

\* _fetch_from_node: the keys the returned dict has an entry for.  On an
\* error every key is given None; on 200 the dict is data.get("results", {})
\* as the peer sent it.
fetch_from_node(node, keys, answer) ==
    IF answer = "partial" THEN {} ELSE keys

\* The handler multi_get_cache of routers/cache.py with a cluster manager:
\* the status of the response and the keys its "results" has an entry for.
\* The routing loop names the node of a key by target_node.split("://")[1],
\* which raises on a url without "://" (answered 500); the memory backend
\* does not suspend in cache_manager.mget, so the nodes are those of the
\* routing when the tasks are built; a node that is not online then is not
\* asked, and what a task returns is merged as it is.
multi_get_cache(W, ns, ring, keys, answers) ==
    LET target(key) == route_request(ns, ring, key)
        away(key) == target(key) # None /\ target(key) # self_url
        local_keys == SelectSeq(keys, LAMBDA k : ~away(k))
        g == CacheManager_mget(W, local_keys, 0)
        node_of(key) == CHOOSE id \in NodeIds(ns) : NodeGet(ns, id).url = target(key)
        keys_by_node == [id \in {node_of(keys[i]) : i \in {j \in DOMAIN keys : away(keys[j])}}
                            |-> {keys[i] : i \in {j \in DOMAIN keys :
                                    away(keys[j]) /\ node_of(keys[j]) = id}}]
        fetched == UNION {fetch_from_node(NodeGet(ns, id), keys_by_node[id], answers[id]) :
                             id \in {n \in DOMAIN keys_by_node :
                                        NodeGet(ns, n).status = "online"}}
    IN  IF keys = <<>> THEN [W |-> W, status |-> 400, results |-> {}]
        ELSE IF \E i \in DOMAIN keys : away(keys[i]) /\ ~has_scheme(target(keys[i]))
        THEN [W |-> W, status |-> 500, results |-> {}]
        ELSE [W |-> IF local_keys # <<>> THEN g.W ELSE W, status |-> 200,
              results |-> (IF local_keys # <<>> THEN DOMAIN g.ret ELSE {})
                              \cup fetched]

\* C34: on a clustered node the mget endpoint answers every non-empty list
\* of keys with a result entry for each requested key, whatever the peers a
\* key is routed to answer.
C34_MgetAnswersEveryKey ==
    (running /\ backend = "memory" /\ initialized) =>
        \A keys \in KeyLists \ {<<>>}, answers \in [Peers -> FetchAnswers] :
            LET r == multi_get_cache(World, nodes, consistent_hash_ring, keys, answers)
            IN  /\ r.status = 200
                /\ \A i \in DOMAIN keys : keys[i] \in r.results

----------------------------------------------------------------------------
(* RateLimiter of api-gateway/app/rate_limiting.py.  The key of one client *)
(* and path holds a counter in Redis; check_rate_limit reads it with GET   *)
(* and, below the limit, increments it with a pipeline of INCR and EXPIRE. *)
(* Both calls are awaited, so other requests run between them.  The model  *)
(* covers one window of the key (it does not expire) and a Redis that      *)
(* answers every call.                                                     *)

rate_limit_per_minute == 2      \* settings.rate_limit_per_minute, 60 in config.py
MaxChecks == 4                  \* calls of check_rate_limit in the window

\* One step of check_rate_limit for request q, from where it is suspended:
\* the call runs to the GET (or returns True at once without a client); the
\* answer of the GET is compared with the limit, and the request is refused
\* or goes on to the pipeline; the answer of the pipeline has incremented the
\* counter, and the request is allowed.
check_rate_limit(L, q, limit) ==
    CASE L.requests[q] = "idle" ->
            IF ~L.redis_client
            THEN [L EXCEPT !.calls = @ + 1]
            ELSE [L EXCEPT !.calls = @ + 1, !.requests[q] = "get"]
      [] L.requests[q] = "get" ->
            IF L.count >= limit
            THEN [L EXCEPT !.requests[q] = "idle"]
            ELSE [L EXCEPT !.requests[q] = "execute"]
      [] L.requests[q] = "execute" ->
            [L EXCEPT !.count = @ + 1, !.allowed = @ + 1, !.requests[q] = "idle"]

LimiterStep(L, op, note) ==
    /\ rate_limiter' = L
    /\ last' = [op |-> op, note |-> note]
    /\ UNCHANGED <<now, settings, backend, initialized, cache, current_size,
                   redis_keys, redis_tags, collection, metrics, cluster, scheduler,
                   callers, session_store>>

\* RateLimiter.init_redis, awaited by the lifespan of the gateway before it
\* serves requests.
InitRedis ==
    /\ ~rate_limiter.redis_client
    /\ LimiterStep([rate_limiter EXCEPT !.redis_client = TRUE], "init_redis", "-")

\* A request reaches is_rate_limited, which calls check_rate_limit on the
\* minute key.
CheckCall(q) ==
    /\ rate_limiter.redis_client
    /\ rate_limiter.requests[q] = "idle"
    /\ rate_limiter.calls < MaxChecks
    /\ LimiterStep(check_rate_limit(rate_limiter, q, rate_limit_per_minute),
                   "check_rate_limit", q)

\* Redis answers the call the request is suspended at.
CheckResume(q) ==
    /\ rate_limiter.requests[q] # "idle"
    /\ LimiterStep(check_rate_limit(rate_limiter, q, rate_limit_per_minute),
                   rate_limiter.requests[q], q)

----------------------------------------------------------------------------
(* SessionStore of websocket-service/app/session_store.py.  get_session    *)
(* reads the session key and, when it holds data, awaits update_session    *)
(* for the last-accessed time; update_session starts by awaiting           *)
(* get_session.  depth is the number of get_session frames on the stack of *)
(* the one call under way: frames alternate get_session, update_session.   *)

MaxFrames == 5          \* the recursion limit of the interpreter, in frames

\* get_session number d has returned r (None or the session) to the
\* update_session that awaited it, or to the caller when d = 1.
\* update_session returns False on None, and otherwise awaits SETEX; the
\* get_session above it returns its session whatever update_session returned.
RECURSIVE update_session(_, _, _)
update_session(S, d, r) ==
    IF d = 1 THEN [S EXCEPT !.pc = "returned", !.depth = 0, !.ret = r]
    ELSE IF r = None THEN update_session(S, d - 1, "session")
    ELSE [S EXCEPT !.pc = "setex", !.depth = d - 1, !.setexs = @ + 1]

\* The innermost get_session resumes with the answer of its GET.  With data,
\* it calls update_session, which calls get_session again, which suspends at
\* its own GET; a call that does not fit the stack raises RecursionError in
\* the frame that makes it, which that frame catches (get_session returns
\* None, update_session returns False).
get_session(S) ==
    LET d == S.depth
        frames == 2 * d - 1
    IN  IF ~S.stored THEN update_session(S, d, None)
        ELSE IF frames + 1 > MaxFrames THEN update_session(S, d, None)
        ELSE IF frames + 2 > MaxFrames THEN update_session(S, d, "session")
        ELSE [S EXCEPT !.depth = d + 1, !.gets = @ + 1]

SessionStep(S, op, note) ==
    /\ session_store' = S
    /\ last' = [op |-> op, note |-> note]
    /\ UNCHANGED <<now, settings, backend, initialized, cache, current_size,
                   redis_keys, redis_tags, collection, metrics, cluster, scheduler,
                   callers, rate_limiter>>

\* create_session: SETEX of the session key.
CreateSession ==
    /\ ~session_store.stored
    /\ session_store.pc # "setex"
    /\ SessionStep([session_store EXCEPT !.stored = TRUE], "create_session", "-")

\* The TTL of the session key ends, or delete_session removes it.
ExpireSession ==
    /\ session_store.stored
    /\ SessionStep([session_store EXCEPT !.stored = FALSE], "expire", "-")

\* A handler calls get_session(session_id), which suspends at its GET.
GetSession ==
    /\ session_store.pc \in {"idle", "returned"}
    /\ SessionStep([session_store EXCEPT !.pc = "get", !.depth = 1, !.ret = None,
                                         !.gets = 1, !.setexs = 0],
                   "get_session", session_store.stored)

\* Redis answers the GET or the SETEX the call is suspended at; the SETEX
\* has written the session key.
SessionResume ==
    \/ /\ session_store.pc = "get"
       /\ SessionStep(get_session(session_store), "get", session_store.depth)
    \/ /\ session_store.pc = "setex"
       /\ SessionStep(update_session([session_store EXCEPT !.stored = TRUE],
                                     session_store.depth, "session"),
                      "setex", session_store.depth)

InitServices ==
    /\ Constructed
    /\ cache_strategy = "lru"
    /\ cache_backend = "memory"
    /\ enable_clustering = FALSE

NextServices ==
    \/ InitRedis
    \/ \E q \in Requests : CheckCall(q)
    \/ \E q \in Requests : CheckResume(q)
    \/ CreateSession
    \/ ExpireSession
    \/ GetSession
    \/ SessionResume

SpecServices == InitServices /\ [][NextServices]_vars

----------------------------------------------------------------------------
(* Claims about the rate limiter and the session store (SpecServices).     *)

\* C38: the number of requests check_rate_limit allows for one key within
\* one window never exceeds the limit, also when several requests for the
\* key run check_rate_limit concurrently.
C38_AllowedWithinLimit ==
    rate_limiter.allowed <= rate_limit_per_minute

\* C39: get_session does not re-enter itself without bound: the call made
\* through update_session is the only one, so at most two get_session frames
\* are on the stack and the session key is read at most twice.
C39_GetSessionBounded ==
    /\ session_store.depth <= 2
    /\ session_store.gets <= 2

====
